---- MODULE Spec2Model ----
(***************************************************************************)
(* Model of construct-editor's tree model (core/model.py) over the entry   *)
(* hierarchy of helper/wrapper.py: path addressing into the live object,   *)
(* lazily rebuilt array children, conditional branches, visibility marks   *)
(* and value edits routed through an undoable command.                     *)
(***************************************************************************)
EXTENDS Integers, Sequences, FiniteSets, TLC

\* ------------------------------------------------------------------------
\* Bounds
\* ------------------------------------------------------------------------
\* longest list offered as a live value or as a new value
MaxLen == 2
\* number of commands submitted to the command processor in one run
MaxCmds == 1

\* ------------------------------------------------------------------------
\* Live values: None, integers, lists and dicts, each optionally carrying
\* gui metadata (the parse context; "nometa" = no metadata attached).
\* ------------------------------------------------------------------------
NoMeta == "nometa"

PyNone == [t |-> "none", v |-> 0, ctx |-> NoMeta]

PyInt(i) == [t |-> "int", v |-> i, ctx |-> NoMeta]

PyList(s) == [t |-> "list", v |-> s, ctx |-> NoMeta]

PyDict(f) == [t |-> "dict", v |-> f, ctx |-> NoMeta]

\* a list of k integers
ListOfLen(k) == PyList([i \in 1..k |-> PyInt(i)])

\* get_gui_metadata(obj): the attached metadata, or None ("nometa")
get_gui_metadata(obj) == obj.ctx

\* add_gui_metadata(obj, metadata): None cannot carry metadata
add_gui_metadata(obj, metadata) ==
    IF obj.t = "none" THEN obj ELSE [obj EXCEPT !.ctx = metadata]

\* the value without its metadata (a value with metadata compares equal to
\* the plain value in Python)
Plain(obj) == [obj EXCEPT !.ctx = NoMeta]

\* evaluate(param, context) for the condfunc of the grammar's IfThenElse:
\* the predicate is true in context "T" and false in context "F"
evaluate(context) == context = "T"

\* evaluate(param, context) for the keyfunc of the grammar's Switches: the
\* key is the tag the context holds
keyfunc(context) == context

\* ------------------------------------------------------------------------
\* The grammar and the entry tree built from it.  An entry is <<node, idx>>:
\* node is the grammar position, idx the array index of the element the
\* entry was created for (-1 outside array elements).
\* ------------------------------------------------------------------------
\* declared count of the grammar's Array (construct.count, a static int)
ArrCount == 2

MaxIdx == IF MaxLen > ArrCount THEN MaxLen ELSE ArrCount

NoEntry == <<"", -1>>

\* kind   : entry class; name : construct.name ("" = None);
\* subname: construct.subcon.name; parent: node of the parent entry;
\* sub    : node of EntrySubconstruct.subentry; fields: EntryStruct._subentries
\* excl   : exclude_from_path constructor argument; dyn: inside an array element
Node(kind, name, subname, parent, sub, fields, excl, dyn) ==
    [kind |-> kind, name |-> name, subname |-> subname, parent |-> parent,
     sub |-> sub, fields |-> fields, excl |-> excl, dyn |-> dyn]

GrammarTree ==
    [root   |-> Node("Struct", "", "", "", "",
                     <<"b", "pad", "arr", "cond", "n">>, FALSE, FALSE),
     b      |-> Node("Renamed", "_b", "", "root", "b_s", <<>>, FALSE, FALSE),
     b_s    |-> Node("Struct", "", "", "b", "", <<"c">>, FALSE, FALSE),
     c      |-> Node("Renamed", "c", "", "b_s", "c_s", <<>>, FALSE, FALSE),
     c_s    |-> Node("Leaf", "", "", "c", "", <<>>, FALSE, FALSE),
     pad    |-> Node("Leaf", "", "", "root", "", <<>>, FALSE, FALSE),
     arr    |-> Node("Renamed", "arr", "", "root", "arr_s", <<>>, FALSE, FALSE),
     arr_s  |-> Node("Array", "", "", "arr", "", <<>>, FALSE, FALSE),
     el     |-> Node("Renamed", "", "", "arr_s", "el_s", <<>>, FALSE, TRUE),
     el_s   |-> Node("Leaf", "", "", "el", "", <<>>, FALSE, TRUE),
     cond   |-> Node("Renamed", "cond", "", "root", "cond_s", <<>>, FALSE, FALSE),
     cond_s |-> Node("IfThenElse", "", "", "cond", "", <<>>, FALSE, FALSE),
     then   |-> Node("Renamed", "If cond then", "", "cond_s", "then_s", <<>>, TRUE, FALSE),
     then_s |-> Node("Struct", "", "", "then", "", <<"x">>, FALSE, FALSE),
     x      |-> Node("Renamed", "x", "", "then_s", "x_s", <<>>, FALSE, FALSE),
     x_s    |-> Node("Leaf", "", "", "x", "", <<>>, FALSE, FALSE),
     else   |-> Node("Renamed", "Else", "", "cond_s", "else_s", <<>>, TRUE, FALSE),
     else_s |-> Node("Leaf", "", "", "else", "", <<>>, FALSE, FALSE),
     n      |-> Node("Renamed", "n", "n", "root", "n_s", <<>>, FALSE, FALSE),
     n_s    |-> Node("Renamed", "n", "", "n", "n_ss", <<>>, FALSE, FALSE),
     n_ss   |-> Node("Leaf", "", "", "n_s", "", <<>>, FALSE, FALSE),
     \* a second grammar: a struct of two switches on the context's tag, the
     \* first with the cases A, B and a default, the second with the case A only
     sroot  |-> Node("Struct", "", "", "", "", <<"sw", "sd">>, FALSE, FALSE),
     sw     |-> Node("Renamed", "sw", "", "sroot", "sw_s", <<>>, FALSE, FALSE),
     sw_s   |-> Node("Switch", "", "", "sw", "", <<"swA", "swB", "swD">>, FALSE, FALSE),
     swA    |-> Node("Renamed", "Case tag == A", "", "sw_s", "swA_s", <<>>, TRUE, FALSE),
     swA_s  |-> Node("Leaf", "", "", "swA", "", <<>>, FALSE, FALSE),
     swB    |-> Node("Renamed", "Case tag == B", "", "sw_s", "swB_s", <<>>, TRUE, FALSE),
     swB_s  |-> Node("Struct", "", "", "swB", "", <<"y">>, FALSE, FALSE),
     y      |-> Node("Renamed", "y", "", "swB_s", "y_s", <<>>, FALSE, FALSE),
     y_s    |-> Node("Leaf", "", "", "y", "", <<>>, FALSE, FALSE),
     swD    |-> Node("Renamed", "Default", "", "sw_s", "swD_s", <<>>, TRUE, FALSE),
     swD_s  |-> Node("Leaf", "", "", "swD", "", <<>>, FALSE, FALSE),
     sd     |-> Node("Renamed", "sd", "", "sroot", "sd_s", <<>>, FALSE, FALSE),
     sd_s   |-> Node("Switch", "", "", "sd", "", <<"sdA">>, FALSE, FALSE),
     sdA    |-> Node("Renamed", "Case tag == A", "", "sd_s", "sdA_s", <<>>, TRUE, FALSE),
     sdA_s  |-> Node("Leaf", "", "", "sdA", "", <<>>, FALSE, FALSE),
     \* a third grammar: a struct of three arrays, two of structs and one of
     \* integers; the sub of an array is the entry made of construct.subcon
     lroot  |-> Node("Struct", "", "", "", "", <<"p", "q", "r">>, FALSE, FALSE),
     p      |-> Node("Renamed", "p", "", "lroot", "p_s", <<>>, FALSE, FALSE),
     p_s    |-> Node("Array", "", "", "p", "p_e", <<>>, FALSE, FALSE),
     p_e    |-> Node("Struct", "", "", "p_s", "", <<"pf">>, FALSE, FALSE),
     pf     |-> Node("Renamed", "pf", "", "p_e", "pf_s", <<>>, FALSE, FALSE),
     pf_s   |-> Node("Leaf", "", "", "pf", "", <<>>, FALSE, FALSE),
     q      |-> Node("Renamed", "q", "", "lroot", "q_s", <<>>, FALSE, FALSE),
     q_s    |-> Node("Array", "", "", "q", "q_e", <<>>, FALSE, FALSE),
     q_e    |-> Node("Struct", "", "", "q_s", "", <<"qf">>, FALSE, FALSE),
     qf     |-> Node("Renamed", "qf", "", "q_e", "qf_s", <<>>, FALSE, FALSE),
     qf_s   |-> Node("Leaf", "", "", "qf", "", <<>>, FALSE, FALSE),
     r      |-> Node("Renamed", "r", "", "lroot", "r_s", <<>>, FALSE, FALSE),
     r_s    |-> Node("Array", "", "", "r", "r_e", <<>>, FALSE, FALSE),
     r_e    |-> Node("Leaf", "", "", "r_s", "", <<>>, FALSE, FALSE)]

Nodes == DOMAIN GrammarTree

Entries ==
    {<<nd, -1>> : nd \in {m \in Nodes : ~GrammarTree[m].dyn}}
    \cup {<<nd, i>> : nd \in {m \in Nodes : GrammarTree[m].dyn}, i \in 0..(MaxIdx - 1)}

RootEntry == <<"root", -1>>

\* the root entry of the second grammar
SwitchRoot == <<"sroot", -1>>

\* the root entry of the third grammar
ListRoot == <<"lroot", -1>>

Kind(e) == GrammarTree[e[1]].kind

\* EntryConstruct.parent
parent(e) ==
    LET pn == GrammarTree[e[1]].parent
    IN  IF pn = "" THEN NoEntry
        ELSE <<pn, IF GrammarTree[pn].dyn THEN e[2] ELSE -1>>

\* EntrySubconstruct.subentry
subentry(e) ==
    LET sn == GrammarTree[e[1]].sub
    IN  <<sn, IF GrammarTree[sn].dyn THEN e[2] ELSE -1>>

\* EntryConstruct.name: construct.name, "" when None; an array element is a
\* Renamed whose newname is str(index)
name(e) ==
    IF e[1] = "el" THEN ToString(e[2]) ELSE GrammarTree[e[1]].name

RECURSIVE root_of(_)
\* the root of the tree an entry belongs to
root_of(e) == IF parent(e) = NoEntry THEN e ELSE root_of(parent(e))

\* the entries of the tree below a root entry
Tree(re) == {e \in Entries : root_of(e) = re}

\* EntrySwitch._subentry_cases: the branch wrapper registered for each key
subentry_cases(e) ==
    IF e[1] = "sw_s" THEN [A |-> <<"swA", -1>>, B |-> <<"swB", -1>>]
    ELSE [A |-> <<"sdA", -1>>]

\* EntrySwitch._subentry_default (NoEntry = None)
subentry_default(e) == IF e[1] = "sw_s" THEN <<"swD", -1>> ELSE NoEntry

\* the constructor argument alone, without the test for a nested Renamed
exclude_from_path_argument_only(e) == GrammarTree[e[1]].excl

\* EntryRenamed._exclude_from_path as set by the constructor
exclude_from_path(e) ==
    \/ GrammarTree[e[1]].excl
    \/ name(e) = GrammarTree[e[1]].subname

\* name.startswith("_"): TLC strings are atomic, so the test is the set of
\* the grammar's names that begin with an underscore
startswith_underscore(s) == s \in {"_b"}

\* int(p): defined on the decimal renderings of the indices, ValueError on
\* every other segment
IsIntStr(p) == \E i \in 0..MaxIdx : ToString(i) = p

int(p) == CHOOSE i \in 0..MaxIdx : ToString(i) = p

\* ------------------------------------------------------------------------
\* Path addressing
\* ------------------------------------------------------------------------
RECURSIVE path(_)
\* EntryConstruct.path: a fresh list per call, the parent's path plus the
\* entry's own name when it has one
EntryConstruct_path(e) ==
    IF parent(e) # NoEntry
    THEN IF name(e) # "" THEN Append(path(parent(e)), name(e))
                        ELSE path(parent(e))
    ELSE <<>>

\* mutant of EntryRenamed.path: the exclude flag is ignored
EntryRenamed_path_ignoring_flag(e) == EntryConstruct_path(e)

\* EntryRenamed.path
EntryRenamed_path(e) ==
    IF exclude_from_path(e)
    THEN IF parent(e) # NoEntry THEN path(parent(e)) ELSE <<>>
    ELSE EntryConstruct_path(e)

path(e) ==
    IF Kind(e) = "Renamed" THEN EntryRenamed_path(e) ELSE EntryConstruct_path(e)

Ok(val) == [err |-> "", val |-> val]

Raise(exc) == [err |-> exc, val |-> PyNone]

RECURSIVE obj_get(_, _)
\* a getter that gives None for a key or an index that is not there
obj_get_lenient(obj, pth) ==
    IF pth = <<>> THEN Ok(obj)
    ELSE LET p == Head(pth) IN
         IF obj.t = "dict"
         THEN IF p \in DOMAIN obj.v THEN obj_get(obj.v[p], Tail(pth))
                                    ELSE Ok(PyNone)
         ELSE IF obj.t = "list"
         THEN IF IsIntStr(p) /\ int(p) < Len(obj.v)
              THEN obj_get(obj.v[int(p) + 1], Tail(pth))
              ELSE Ok(PyNone)
         ELSE obj_get(obj, Tail(pth))

\* EntryConstruct.obj getter, from the object reached so far: a segment
\* indexes a dict by key and a list by int(segment); on any other value the
\* segment is skipped
obj_get(obj, pth) ==
    IF pth = <<>> THEN Ok(obj)
    ELSE LET p == Head(pth) IN
         IF obj.t = "dict"
         THEN IF p \in DOMAIN obj.v THEN obj_get(obj.v[p], Tail(pth))
                                    ELSE Raise("KeyError")
         ELSE IF obj.t = "list"
         THEN IF ~IsIntStr(p) THEN Raise("ValueError")
              ELSE IF int(p) < Len(obj.v) THEN obj_get(obj.v[int(p) + 1], Tail(pth))
              ELSE Raise("IndexError")
         ELSE obj_get(obj, Tail(pth))

\* an assignment that stores the value under every key of a dict
obj_assign_every_key(obj, pth, val) ==
    IF obj.t = "dict" /\ pth # <<>>
    THEN Ok([obj EXCEPT !.v = [k \in DOMAIN obj.v \cup {pth[1]} |-> val]])
    ELSE Ok(obj)

\* the final assignment of the obj setter: obj[path[-1]] = val on a dict,
\* obj[int(path[-1])] = val on a list, nothing on any other value
obj_assign(obj, pth, val) ==
    IF obj.t = "dict"
    THEN IF pth = <<>> THEN Raise("IndexError")
         ELSE Ok([obj EXCEPT !.v = [k \in DOMAIN obj.v \cup {pth[1]} |->
                                      IF k = pth[1] THEN val ELSE obj.v[k]]])
    ELSE IF obj.t = "list"
    THEN IF pth = <<>> THEN Raise("IndexError")
         ELSE IF ~IsIntStr(pth[1]) THEN Raise("ValueError")
         ELSE IF int(pth[1]) < Len(obj.v)
              THEN Ok([obj EXCEPT !.v = [obj.v EXCEPT ![int(pth[1]) + 1] = val]])
              ELSE Raise("IndexError")
    ELSE Ok(obj)

RECURSIVE obj_set(_, _, _)
\* EntryConstruct.obj setter: the traversal of path[:-1], then the final
\* assignment; the result is the object as mutated in place
obj_set(obj, pth, val) ==
    IF Len(pth) <= 1 THEN obj_assign(obj, pth, val)
    ELSE LET p == Head(pth) IN
         IF obj.t = "dict"
         THEN IF p \in DOMAIN obj.v
              THEN LET r == obj_set(obj.v[p], Tail(pth), val) IN
                   IF r.err # "" THEN r
                   ELSE Ok([obj EXCEPT !.v = [obj.v EXCEPT ![p] = r.val]])
              ELSE Raise("KeyError")
         ELSE IF obj.t = "list"
         THEN IF ~IsIntStr(p) THEN Raise("ValueError")
              ELSE IF int(p) < Len(obj.v)
              THEN LET r == obj_set(obj.v[int(p) + 1], Tail(pth), val) IN
                   IF r.err # "" THEN r
                   ELSE Ok([obj EXCEPT !.v = [obj.v EXCEPT ![int(p) + 1] = r.val]])
              ELSE Raise("IndexError")
         ELSE obj_set(obj, Tail(pth), val)

\* ------------------------------------------------------------------------
\* The construct of the grammar's array
\* ------------------------------------------------------------------------
\* cs.Array(ArrCount, subcon): the count is an int
DeclaredArray == [cls |-> "Array", static |-> TRUE, count |-> ArrCount]

\* cs.Array(this.n, subcon): the count is a function of the context
ComputedArray == [cls |-> "Array", static |-> FALSE, count |-> 0]

\* cs.GreedyRange(subcon): there is no count
GreedyRange == [cls |-> "GreedyRange", static |-> FALSE, count |-> 0]

ArrayConstructs == {DeclaredArray, ComputedArray, GreedyRange}

\* a fallback that takes the count for an int in every case
fallback_len_count_only(c) == c.count

\* the except branch of subentries: EntryArray takes construct.count when it
\* is an int and 1 when it is not, EntryGreedyRange takes 1
fallback_len(c) == IF c.cls = "Array" /\ c.static THEN c.count ELSE 1

\* the except branch of typ_str
fallback_label(c) ==
    IF c.cls = "GreedyRange" THEN "GreedyRange"
    ELSE IF c.static THEN "Array[" \o ToString(c.count) \o "]"
    ELSE "Array[<function>]"

\* ------------------------------------------------------------------------
\* The registry of entry classes
\* ------------------------------------------------------------------------
\* the base class of each construct class the registry is asked about, ""
\* for a class without one: the library's Construct, Subconstruct, Adapter,
\* Struct, Array and Renamed, an application's subclasses of Struct and of
\* Adapter, and a class that is no construct
BaseClass ==
    [Construct |-> "", Subconstruct |-> "Construct", Adapter |-> "Subconstruct",
     Struct |-> "Construct", Array |-> "Subconstruct", Renamed |-> "Subconstruct",
     MyStruct |-> "Struct", MyAdapter |-> "Adapter", int |-> ""]

ConstructTypes == DOMAIN BaseClass

\* isinstance(subcon, key), ty the type of subcon
RECURSIVE isinstance(_, _)
isinstance(ty, key) ==
    ty # "" /\ (ty = key \/ isinstance(BaseClass[ty], key))

\* entry_mapping_construct as the module defines it, in the order of its
\* items, for the classes above
ShippedMapping ==
    <<[key |-> "Struct", value |-> "EntryStruct"],
      [key |-> "Array", value |-> "EntryArray"],
      [key |-> "Renamed", value |-> "EntryRenamed"]>>

\* the outcome of a call that returns an entry of class cls
Created(cls) == [err |-> "", val |-> cls]

\* raise ValueError("subcon type {} is not implemented")
NotImplemented == [err |-> "ValueError", val |-> ""]

\* type(subcon) in entry_mapping_construct
in_mapping(mapping, ty) == \E i \in DOMAIN mapping : mapping[i].key = ty

\* entry_mapping_construct[key]
mapping_get(mapping, key) ==
    mapping[CHOOSE i \in DOMAIN mapping : mapping[i].key = key].value

\* the for loop over entry_mapping_construct.items() and what follows it
RECURSIVE scan_mapping(_, _, _)
scan_mapping(mapping, items, ty) ==
    IF items = <<>>
    THEN IF isinstance(ty, "Construct") THEN Created("EntryConstruct")
         ELSE NotImplemented
    ELSE IF isinstance(ty, Head(items).key)
         THEN Created(mapping_get(mapping, Head(items).key))
         ELSE scan_mapping(mapping, Tail(items), ty)

\* a lookup that scans for a registered base class first
create_entry_scanning_first(mapping, ty) == scan_mapping(mapping, mapping, ty)

\* create_entry_from_construct, ty the type of subcon
create_entry_from_construct(mapping, ty) ==
    IF in_mapping(mapping, ty) THEN Created(mapping_get(mapping, ty))
    ELSE scan_mapping(mapping, mapping, ty)

\* entry_mapping_construct[key] = value: a dict keeps the place of a key it
\* has and appends a new one
mapping_set(mapping, key, value) ==
    IF in_mapping(mapping, key)
    THEN [i \in DOMAIN mapping |->
             IF mapping[i].key = key THEN [key |-> key, value |-> value]
             ELSE mapping[i]]
    ELSE Append(mapping, [key |-> key, value |-> value])

\* ------------------------------------------------------------------------
\* State
\* ------------------------------------------------------------------------
VARIABLES
    root_entry,          \* ConstructEditorModel.root_entry (NoEntry = None)
    root_obj,            \* ConstructEditorModel.root_obj
    hide_protected,      \* ConstructEditorModel.hide_protected
    visible_row,         \* EntryConstruct.visible_row of every entry
    arr_subentries,      \* EntryArray._subentries of the grammar's array
    history,             \* commands held by the command processor
    changed_log,         \* calls of on_value_changed, in order
    list_viewed_entries, \* ConstructEditorModel.list_viewed_entries
    entry_mapping_construct, \* the module's registry, in insertion order
    arr_construct,       \* EntryArray.construct of the grammar's array
    integer_format,      \* ConstructEditorModel.integer_format
    lastOp               \* the call the consumer is in and its outcome; the
                         \* consumer makes one call at a time (op "idle":
                         \* it is between calls)

\* IntegerFormat.Dec and IntegerFormat.Hex
IntegerFormat_Dec == "Dec"

IntegerFormat_Hex == "Hex"

vars == <<root_entry, root_obj, hide_protected, visible_row, arr_subentries,
          history, changed_log, list_viewed_entries, entry_mapping_construct,
          arr_construct, integer_format, lastOp>>

\* op: the call; entry, col, val: its arguments; old: the value it read;
\* ret: the entries it returned; flag: the boolean it returned; err: the
\* exception it raised ("" = none); n0: the array's cached child count when
\* the call began; pth: the path it returned; str: the string it returned
Op(op, entry, col, val, old, ret, flag, err, n0) ==
    [op |-> op, entry |-> entry, col |-> col, val |-> val, old |-> old,
     ret |-> ret, flag |-> flag, err |-> err, n0 |-> n0, pth |-> <<>>,
     str |-> ""]

Idle == Op("idle", NoEntry, 0, PyNone, PyNone, <<>>, FALSE, "", 0)

\* ------------------------------------------------------------------------
\* subentries of the entry classes
\* ------------------------------------------------------------------------
Sub(err, present, list, cache) ==
    [err |-> err, present |-> present, list |-> list, cache |-> cache]

\* len(obj): lists and dicts have a length, None and integers raise
HasLen(obj) == obj.t \in {"list", "dict"}

len(obj) == IF obj.t = "list" THEN Len(obj.v) ELSE Cardinality(DOMAIN obj.v)

\* len(obj) of the value a read returned, and on any exception
\* construct.count (a static int in this grammar)
len_or_count(r) ==
    IF r.err = "" /\ HasLen(r.val) THEN len(r.val) ELSE fallback_len(arr_construct)

\* the length EntryArray.subentries settles on
array_len(e, robj) == len_or_count(obj_get(robj, path(e)))

\* the children of an array of length n, one per index
insert_entries(n) == [i \in 1..n |-> <<"el", i - 1>>]

\* the cached children rebuilt without being cleared first
rebuilt_without_clear(cache, n) ==
    IF Len(cache) # n THEN cache \o insert_entries(n) ELSE cache

\* the cached children, cleared and rebuilt when their number differs from
\* the array length
rebuilt(cache, n) == IF Len(cache) # n THEN insert_entries(n) ELSE cache

\* a subentries list that is also the array's cache from now on
Listed(list) == Sub("", TRUE, list, list)

\* for the mutant EntryArray_subentries_stale: the cached children, rebuilt
\* only when none is cached
rebuilt_once(cache, n) == IF cache = <<>> THEN insert_entries(n) ELSE cache

\* for the mutant EntryArray_subentries_none_when_empty: the rebuilt
\* children, None when there is none
listed_unless_empty(list) ==
    IF list = <<>> THEN Sub("", FALSE, <<>>, <<>>) ELSE Listed(list)

\* mutant of EntryArray.subentries: the children are built once, when none
\* is cached yet, and kept from then on
EntryArray_subentries_stale(e, cache, robj) ==
    Listed(rebuilt_once(cache, array_len(e, robj)))

\* mutant of EntryArray.subentries: an array without elements reports None
EntryArray_subentries_none_when_empty(e, cache, robj) ==
    listed_unless_empty(rebuilt(cache, array_len(e, robj)))

\* EntryArray.subentries: the cached children, rebuilt one per index when
\* their number differs from the array length
EntryArray_subentries(e, cache, robj) ==
    Listed(rebuilt(cache, array_len(e, robj)))

\* EntryStruct.subentries: the children built by the constructor
EntryStruct_subentries(e, cache) ==
    LET fs == GrammarTree[e[1]].fields
    IN  Sub("", TRUE, [i \in 1..Len(fs) |->
                         <<fs[i], IF GrammarTree[fs[i]].dyn THEN e[2] ELSE -1>>],
            cache)

\* the branch kept from the time the value was a then-value
branch_of_kept(e, r) ==
    IF r.err # "" THEN [err |-> r.err, entry |-> NoEntry]
    ELSE IF r.val.t = "none" THEN [err |-> "", entry |-> NoEntry]
    ELSE IF get_gui_metadata(r.val) = NoMeta
         THEN [err |-> "AttributeError", entry |-> NoEntry]
    ELSE [err |-> "", entry |-> subentry(<<"then", e[2]>>)]

\* EntryIfThenElse._get_subentry on the value r a read of self.obj returned:
\* [err, entry]; NoEntry = None
branch_of(e, r) ==
    IF r.err # "" THEN [err |-> r.err, entry |-> NoEntry]
    ELSE IF r.val.t = "none" THEN [err |-> "", entry |-> NoEntry]
    ELSE IF get_gui_metadata(r.val) = NoMeta
         THEN [err |-> "AttributeError", entry |-> NoEntry]
    ELSE IF evaluate(get_gui_metadata(r.val))
         THEN [err |-> "", entry |-> subentry(<<"then", e[2]>>)]
         ELSE [err |-> "", entry |-> subentry(<<"else", e[2]>>)]

\* EntryIfThenElse._get_subentry
EntryIfThenElse_get_subentry(e, robj) == branch_of(e, obj_get(robj, path(e)))

RECURSIVE subentries(_, _, _)
\* a conditional that has no children while no branch is active
EntryIfThenElse_subentries_leaf_when_none(e, cache, robj, g) ==
    IF g.err # "" THEN Sub(g.err, FALSE, <<>>, cache)
    ELSE IF g.entry = NoEntry THEN Sub("", FALSE, <<>>, cache)
    ELSE subentries(g.entry, cache, robj)

\* EntryIfThenElse.subentries, g the outcome of _get_subentry
EntryIfThenElse_subentries(e, cache, robj, g) ==
    IF g.err # "" THEN Sub(g.err, FALSE, <<>>, cache)
    ELSE IF g.entry = NoEntry
    THEN Sub("", TRUE, <<<<"then", e[2]>>, <<"else", e[2]>>>>, cache)
    ELSE subentries(g.entry, cache, robj)

\* a switch that has no branch for a key without a case
case_of_ignoring_default(e, r) ==
    IF r.err # "" THEN [err |-> r.err, entry |-> NoEntry]
    ELSE IF r.val.t = "none" THEN [err |-> "", entry |-> NoEntry]
    ELSE IF get_gui_metadata(r.val) = NoMeta
         THEN [err |-> "AttributeError", entry |-> NoEntry]
    ELSE IF keyfunc(get_gui_metadata(r.val)) \in DOMAIN subentry_cases(e)
         THEN [err |-> "", entry |-> subentry_cases(e)[keyfunc(get_gui_metadata(r.val))]]
         ELSE [err |-> "", entry |-> NoEntry]

\* EntrySwitch._get_subentry on the value r a read of self.obj returned: the
\* key is the tag of the context; [err, entry], NoEntry = None
case_of(e, r) ==
    IF r.err # "" THEN [err |-> r.err, entry |-> NoEntry]
    ELSE IF r.val.t = "none" THEN [err |-> "", entry |-> NoEntry]
    ELSE IF get_gui_metadata(r.val) = NoMeta
         THEN [err |-> "AttributeError", entry |-> NoEntry]
    ELSE IF keyfunc(get_gui_metadata(r.val)) \in DOMAIN subentry_cases(e)
         THEN [err |-> "", entry |-> subentry_cases(e)[keyfunc(get_gui_metadata(r.val))]]
         ELSE [err |-> "", entry |-> subentry_default(e)]

\* EntrySwitch._get_subentry
EntrySwitch_get_subentry(e, robj) == case_of(e, obj_get(robj, path(e)))

\* EntrySwitch._subentries: every case branch in declaration order, then the
\* default branch
EntrySwitch_branches(e) ==
    [i \in 1..Len(GrammarTree[e[1]].fields) |-> <<GrammarTree[e[1]].fields[i], -1>>]

\* EntrySwitch.subentries, g the outcome of _get_subentry
EntrySwitch_subentries(e, cache, robj, g) ==
    IF g.err # "" THEN Sub(g.err, FALSE, <<>>, cache)
    ELSE IF g.entry = NoEntry THEN Sub("", TRUE, EntrySwitch_branches(e), cache)
    ELSE subentries(g.entry, cache, robj)

\* entry.subentries, by class of the entry; present = FALSE is None
subentries(e, cache, robj) ==
    CASE Kind(e) = "Leaf"    -> Sub("", FALSE, <<>>, cache)
      [] Kind(e) = "Struct"  -> EntryStruct_subentries(e, cache)
      [] Kind(e) = "Renamed" -> subentries(subentry(e), cache, robj)
      [] Kind(e) = "Array"   -> EntryArray_subentries(e, cache, robj)
      [] Kind(e) = "IfThenElse" ->
            EntryIfThenElse_subentries(e, cache, robj,
                                       EntryIfThenElse_get_subentry(e, robj))
      [] Kind(e) = "Switch" ->
            EntrySwitch_subentries(e, cache, robj, EntrySwitch_get_subentry(e, robj))

\* ------------------------------------------------------------------------
\* typ_str, obj_str and the flat subentry list
\* ------------------------------------------------------------------------
RECURSIVE join(_)
\* ", ".join(ss)
join(ss) ==
    IF ss = <<>> THEN ""
    ELSE IF Len(ss) = 1 THEN ss[1]
    ELSE ss[1] \o ", " \o join(Tail(ss))

\* the keys of the parsed objects, in the order the parse inserts them
KeyOrder == <<"_b", "arr", "cond", "n", "c", "x", "sw", "sd", "y">>

RECURSIVE str(_)
\* the items of a dict, rendered in insertion order
dict_items(ks, obj) == [i \in 1..Len(ks) |-> ks[i] \o ": " \o str(obj.v[ks[i]])]

\* str(obj)
str(obj) ==
    IF obj.t = "none" THEN "None"
    ELSE IF obj.t = "int" THEN ToString(obj.v)
    ELSE IF obj.t = "list"
         THEN "[" \o join([i \in 1..Len(obj.v) |-> str(obj.v[i])]) \o "]"
    ELSE "{" \o join(dict_items(SelectSeq(KeyOrder, LAMBDA k : k \in DOMAIN obj.v), obj))
             \o "}"

\* repr(self.construct) of an entry without a class of its own
repr(e) == "<" \o e[1] \o ">"

\* a string a property returned, and a property that raised
Str(val) == [err |-> "", val |-> val]

RaiseStr(exc) == [err |-> exc, val |-> ""]

\* str(self.obj) of the value r a read of self.obj returned
str_of(r) == IF r.err # "" THEN RaiseStr(r.err) ELSE Str(str(r.val))

\* EntryConstruct.obj_str
EntryConstruct_obj_str(e, robj) == str_of(obj_get(robj, path(e)))

\* EntryArray.typ_str on the length n the try or the except settles on
array_label(r, c) ==
    IF r.err = "" /\ HasLen(r.val)
    THEN Str(c.cls \o "[" \o ToString(len(r.val)) \o "]")
    ELSE Str(fallback_label(c))

\* EntryArray.typ_str
EntryArray_typ_str(e, robj) == array_label(obj_get(robj, path(e)), arr_construct)

RECURSIVE typ_str(_, _)
\* EntryIfThenElse.typ_str and EntrySwitch.typ_str, g the outcome of
\* _get_subentry and label the label without an active branch
branch_typ_str(robj, g, label) ==
    IF g.err # "" THEN RaiseStr(g.err)
    ELSE IF g.entry = NoEntry THEN Str(label)
    ELSE typ_str(g.entry, robj)

\* entry.typ_str, by class of the entry
typ_str(e, robj) ==
    CASE Kind(e) = "Leaf"    -> Str(repr(e))
      [] Kind(e) = "Struct"  -> Str("Struct")
      [] Kind(e) = "Renamed" -> typ_str(subentry(e), robj)
      [] Kind(e) = "Array"   -> EntryArray_typ_str(e, robj)
      [] Kind(e) = "IfThenElse" ->
            branch_typ_str(robj, EntryIfThenElse_get_subentry(e, robj), "IfThenElse")
      [] Kind(e) = "Switch" ->
            branch_typ_str(robj, EntrySwitch_get_subentry(e, robj), "Switch")

RECURSIVE obj_str(_, _)
\* EntryIfThenElse.obj_str and EntrySwitch.obj_str, g the outcome of
\* _get_subentry
branch_obj_str(robj, g) ==
    IF g.err # "" THEN RaiseStr(g.err)
    ELSE IF g.entry = NoEntry THEN Str("")
    ELSE obj_str(g.entry, robj)

\* entry.obj_str, by class of the entry
obj_str(e, robj) ==
    CASE Kind(e) = "Leaf"    -> EntryConstruct_obj_str(e, robj)
      [] Kind(e) = "Struct"  -> Str("")
      [] Kind(e) = "Renamed" -> obj_str(subentry(e), robj)
      [] Kind(e) = "Array"   -> Str("")
      [] Kind(e) = "IfThenElse" ->
            branch_obj_str(robj, EntryIfThenElse_get_subentry(e, robj))
      [] Kind(e) = "Switch" ->
            branch_obj_str(robj, EntrySwitch_get_subentry(e, robj))

\* the flat list built so far, or the exception that ended the walk, and the
\* array's cache after the walk
Flat(err, list, cache) == [err |-> err, list |-> list, cache |-> cache]

RECURSIVE create_flat_subentry_list(_, _, _)
RECURSIVE flat_each(_, _, _)
\* the loop of create_flat_subentry_list over the subentries kids, acc the
\* outcome so far
\* the leaves of a later child put before those of the earlier ones
flat_next_prepending(kids, robj, acc, f) ==
    flat_each(Tail(kids), robj, Flat(f.err, f.list \o acc.list, f.cache))

flat_next(kids, robj, acc, f) ==
    flat_each(Tail(kids), robj, Flat(f.err, acc.list \o f.list, f.cache))

flat_each(kids, robj, acc) ==
    IF kids = <<>> \/ acc.err # "" THEN acc
    ELSE flat_next(kids, robj, acc,
                   create_flat_subentry_list(Head(kids), acc.cache, robj))

\* a walk that skips the subentries get_children would drop
flat_from_shown_only(e, robj, s) ==
    IF s.err # "" THEN Flat(s.err, <<>>, s.cache)
    ELSE IF s.present
    THEN flat_each(SelectSeq(s.list, LAMBDA c : name(c) \notin {"", "_b"}), robj,
                   Flat("", <<>>, s.cache))
    ELSE Flat("", <<e>>, s.cache)

\* create_flat_subentry_list, s the entry's subentries
flat_from(e, robj, s) ==
    IF s.err # "" THEN Flat(s.err, <<>>, s.cache)
    ELSE IF s.present THEN flat_each(s.list, robj, Flat("", <<>>, s.cache))
    ELSE Flat("", <<e>>, s.cache)

\* EntryConstruct.create_flat_subentry_list, from an empty list
create_flat_subentry_list(e, cache, robj) ==
    flat_from(e, robj, subentries(e, cache, robj))

\* visible_row once the array has (or has not) replaced its children: new
\* child entries start out not visible
AfterRebuild(vis, cache, newcache) ==
    IF newcache = cache THEN vis
    ELSE [x \in Entries |-> IF GrammarTree[x[1]].dyn THEN FALSE ELSE vis[x]]

\* ------------------------------------------------------------------------
\* Inputs
\* ------------------------------------------------------------------------
\* the objects a parse of the grammar hands to the model: the array holds
\* k elements, the conditional holds a then-value or an else-value, each
\* with the context it was parsed in
CondValues ==
    {add_gui_metadata(PyDict([x |-> PyInt(1)]), "T"),
     add_gui_metadata(PyInt(3), "F")}

ParsedObj(k, cv) ==
    PyDict([_b |-> PyDict([c |-> PyInt(1)]),
            arr |-> ListOfLen(k), cond |-> cv, n |-> PyInt(1)])

ParsedObjs == {ParsedObj(1, cv) : cv \in CondValues}

\* the entries a caller passes to set_value: a leaf of a struct, the array
\* and an element of it, the conditional and a leaf of its then-branch, and
\* an entry whose path is empty
EditEntries ==
    {<<"c", -1>>, <<"arr", -1>>, <<"el", 0>>, <<"cond", -1>>, <<"x", -1>>,
     <<"pad", -1>>}

\* the values a caller passes for an entry: an integer, for the conditional
\* also None, and for the array also a list of each length
NewValues(entry) ==
    {PyInt(7)}
    \cup (IF entry = <<"cond", -1>> THEN {PyNone} ELSE {})
    \cup (IF entry = <<"arr", -1>> THEN {ListOfLen(k) : k \in 0..MaxLen} ELSE {})

Columns == {0, 2, 3}

\* ConstructEditorColumn.Value
ValueColumn == 2

\* ------------------------------------------------------------------------
\* Operations of ConstructEditorModel
\* ------------------------------------------------------------------------
Init ==
    /\ root_entry = NoEntry
    /\ root_obj = PyNone
    /\ hide_protected = TRUE
    /\ visible_row = [x \in Entries |-> FALSE]
    /\ arr_subentries = <<>>
    /\ history = <<>>
    /\ changed_log = <<>>
    /\ list_viewed_entries = <<>>
    /\ entry_mapping_construct = ShippedMapping
    /\ arr_construct = DeclaredArray
    /\ integer_format = IntegerFormat_Dec
    /\ lastOp = Idle

\* a grammar and its parsed object are loaded into the model
Load(obj) ==
    /\ lastOp = Idle
    /\ root_entry = NoEntry
    /\ root_entry' = RootEntry
    /\ root_obj' = obj
    /\ lastOp' = Op("load", NoEntry, 0, obj, PyNone, <<>>, FALSE, "", 0)
    /\ UNCHANGED <<hide_protected, visible_row, arr_subentries, history, changed_log>>
    /\ UNCHANGED <<list_viewed_entries, entry_mapping_construct,
                   arr_construct, integer_format>>

\* the consumer switches the display of protected entries, before it shows
\* the tree
SetHideProtected ==
    /\ lastOp = Idle
    /\ \A x \in Entries : ~visible_row[x]
    /\ hide_protected' = ~hide_protected
    /\ lastOp' = Op("hide_protected", NoEntry, 0, PyNone, PyNone, <<>>,
                    ~hide_protected, "", 0)
    /\ UNCHANGED <<root_entry, root_obj, visible_row, arr_subentries, history, changed_log>>
    /\ UNCHANGED <<list_viewed_entries, entry_mapping_construct,
                   arr_construct, integer_format>>

\* mutant of the test of get_children: unnamed subentries are kept
is_hidden_keeps_unnamed(hp, nm) == hp /\ startswith_underscore(nm)

\* the test of get_children that drops a subentry
is_hidden(hp, nm) == hp /\ (startswith_underscore(nm) \/ nm = "")

\* the list get_children returns for a real entry with present subentries
children_of(list, hp) == SelectSeq(list, LAMBDA c : ~is_hidden(hp, name(c)))

\* the visible_row marks get_children leaves on the subentries it walked
mark_children(vis, list, hp) ==
    [x \in Entries |->
        IF \E i \in 1..Len(list) : list[i] = x
        THEN ~is_hidden(hp, name(x)) ELSE vis[x]]

\* mutant of the root request: the root is returned without being marked
mark_root_skipped(vis, re) == vis

\* the root entry is requested: it becomes a visible row
mark_root(vis, re) == [vis EXCEPT ![re] = TRUE]

Range(sq) == {sq[i] : i \in 1..Len(sq)}

\* the consumer asks about the rows it was given: the absent entry, or an
\* entry that is a visible row
Shown(entry) == entry # NoEntry /\ visible_row[entry]

\* get_children of a real entry, s its subentries: the subentries are walked,
\* filtered and marked
walk_subentries(entry, s) ==
    LET vis == AfterRebuild(visible_row, arr_subentries, s.cache)
    IN  /\ arr_subentries' = s.cache
        /\ IF s.err # "" \/ ~s.present
           THEN /\ visible_row' = vis
                /\ lastOp' = Op("get_children", entry, 0, PyNone, PyNone, <<>>,
                                FALSE, s.err, Len(arr_subentries))
           ELSE /\ visible_row' = mark_children(vis, s.list, hide_protected)
                /\ lastOp' = Op("get_children", entry, 0, PyNone, PyNone,
                                children_of(s.list, hide_protected),
                                FALSE, "", Len(arr_subentries))

get_children(entry) ==
    /\ lastOp = Idle
    /\ entry \in Entries \cup {NoEntry}
    /\ entry = NoEntry \/ root_entry = NoEntry \/ Shown(entry)
    /\ IF root_entry = NoEntry
       THEN /\ lastOp' = Op("get_children", entry, 0, PyNone, PyNone, <<>>, FALSE, "",
                            Len(arr_subentries))
            /\ UNCHANGED <<visible_row, arr_subentries>>
       ELSE IF entry = NoEntry
       THEN /\ visible_row' = mark_root(visible_row, root_entry)
            /\ lastOp' = Op("get_children", entry, 0, PyNone, PyNone, <<root_entry>>,
                            FALSE, "", Len(arr_subentries))
            /\ UNCHANGED arr_subentries
       ELSE walk_subentries(entry, subentries(entry, arr_subentries, root_obj))
    /\ UNCHANGED <<root_entry, root_obj, hide_protected, history, changed_log>>
    /\ UNCHANGED <<list_viewed_entries, entry_mapping_construct,
                   arr_construct, integer_format>>

\* is_container, s the entry's subentries
has_subentries(entry, s) ==
    /\ arr_subentries' = s.cache
    /\ visible_row' = AfterRebuild(visible_row, arr_subentries, s.cache)
    /\ lastOp' = Op("is_container", entry, 0, PyNone, PyNone, <<>>,
                    s.err = "" /\ s.present, s.err, Len(arr_subentries))

is_container(entry) ==
    /\ lastOp = Idle
    /\ root_entry # NoEntry
    /\ entry \in Entries
    /\ Shown(entry)
    /\ has_subentries(entry, subentries(entry, arr_subentries, root_obj))
    /\ UNCHANGED <<root_entry, root_obj, hide_protected, history, changed_log>>
    /\ UNCHANGED <<list_viewed_entries, entry_mapping_construct,
                   arr_construct, integer_format>>

RECURSIVE get_visible_row_entry(_, _)
\* EntryConstruct.get_visible_row_entry: the entry itself or its nearest
\* ancestor that is a visible row, None when there is none
get_visible_row_entry(e, vis) ==
    IF e = NoEntry THEN NoEntry
    ELSE IF vis[e] THEN e
    ELSE get_visible_row_entry(parent(e), vis)

\* the entry get_parent returns (NoEntry = None)
parent_of(entry, vis) ==
    IF entry = NoEntry THEN NoEntry
    ELSE LET v == get_visible_row_entry(entry, vis)
         IN  IF v = NoEntry THEN NoEntry
             ELSE IF parent(v) = NoEntry THEN NoEntry
             ELSE get_visible_row_entry(parent(v), vis)

get_parent(entry) ==
    /\ lastOp = Idle
    /\ root_entry # NoEntry
    /\ entry \in Entries \cup {NoEntry}
    /\ entry = NoEntry \/ Shown(entry)
    /\ lastOp' = Op("get_parent", entry, 0, PyNone, PyNone,
                    <<parent_of(entry, visible_row)>>, FALSE, "", 0)
    /\ UNCHANGED <<root_entry, root_obj, hide_protected, visible_row, arr_subentries,
                   history, changed_log>>
    /\ UNCHANGED <<list_viewed_entries, entry_mapping_construct,
                   arr_construct, integer_format>>

\* on_value_changed(entry): the hook is recorded with the value a read of
\* the entry's path returns at the moment of the call
Notify(log, entry, phase, robj) ==
    Append(log, [entry |-> entry, phase |-> phase,
                 seen |-> obj_get(robj, path(entry)).val])

\* CommandProcessor.submit: the command's do has run once and the command is
\* kept as the latest of the history
submit(hist, cmd) == Append(hist, cmd)

\* CommandProcessor.undo: the latest command leaves the history
undone(hist) == SubSeq(hist, 1, Len(hist) - 1)

Submitted == Len(SelectSeq(changed_log, LAMBDA c : c.phase = "do"))

\* the value set_value stores: the new value with the metadata of the
\* current one linked to it
linked_value(new_value, current_value) ==
    IF get_gui_metadata(current_value) # NoMeta
    THEN add_gui_metadata(new_value, get_gui_metadata(current_value))
    ELSE new_value

\* mutant of set_value: the column is not tested
set_value_error_any_column(entry, column, robj) ==
    IF obj_get(robj, path(entry)).err # "" THEN obj_get(robj, path(entry)).err
    ELSE IF path(entry) = <<>> THEN "IndexError"
    ELSE ""

\* a constructor of Cmd that does not format the last segment of the path
set_value_error_path_unread(entry, column, robj) ==
    IF column # ValueColumn THEN "ValueError"
    ELSE obj_get(robj, path(entry)).err

\* set_value up to the submit: the exception it raises, "" when the command
\* is constructed
set_value_error(entry, column, robj) ==
    IF column # ValueColumn THEN "ValueError"
    ELSE IF obj_get(robj, path(entry)).err # "" THEN obj_get(robj, path(entry)).err
    ELSE IF path(entry) = <<>> THEN "IndexError"
    ELSE ""

\* flag: the command was constructed and handed to submit
set_value(new_value, entry, column) ==
    /\ lastOp = Idle
    /\ root_entry # NoEntry
    /\ Submitted < MaxCmds
    /\ entry \in Tree(root_entry)
    /\ LET err == set_value_error(entry, column, root_obj)
           current_value == obj_get(root_obj, path(entry)).val
           nv == linked_value(new_value, current_value)
           w == obj_set(root_obj, path(entry), nv)
       IN  IF err # ""
           THEN /\ lastOp' = Op("set_value", entry, column, new_value, PyNone, <<>>,
                                FALSE, err, 0)
                /\ UNCHANGED <<root_obj, history, changed_log>>
           ELSE IF w.err # ""
           THEN /\ lastOp' = Op("set_value", entry, column, new_value, current_value,
                                <<>>, TRUE, w.err, 0)
                /\ UNCHANGED <<root_obj, history, changed_log>>
           ELSE \* CommandProcessor.submit runs Cmd.do once and keeps the command
                /\ root_obj' = w.val
                /\ changed_log' = Notify(changed_log, entry, "do", w.val)
                /\ history' = submit(history, [entry |-> entry, new_value |-> nv,
                                               obj_backup |-> current_value])
                /\ lastOp' = Op("set_value", entry, column, new_value, current_value,
                                <<>>, TRUE, "", 0)
    /\ UNCHANGED <<root_entry, hide_protected, visible_row, arr_subentries>>
    /\ UNCHANGED <<list_viewed_entries, entry_mapping_construct,
                   arr_construct, integer_format>>

\* mutant of Cmd.undo: the old value is restored without a call of
\* on_value_changed
undo_silent ==
    /\ lastOp = Idle
    /\ history # <<>>
    /\ LET cmd == history[Len(history)]
           w == obj_set(root_obj, path(cmd.entry), cmd.obj_backup)
       IN  /\ history' = undone(history)
           /\ root_obj' = IF w.err = "" THEN w.val ELSE root_obj
           /\ lastOp' = Op("undo", cmd.entry, ValueColumn, cmd.new_value,
                           cmd.obj_backup, <<>>, FALSE, w.err, 0)
    /\ UNCHANGED <<root_entry, hide_protected, visible_row, arr_subentries, changed_log>>
    /\ UNCHANGED <<list_viewed_entries, entry_mapping_construct,
                   arr_construct, integer_format>>

\* CommandProcessor.undo: Cmd.undo of the latest command
undo ==
    /\ lastOp = Idle
    /\ history # <<>>
    /\ LET cmd == history[Len(history)]
           w == obj_set(root_obj, path(cmd.entry), cmd.obj_backup)
       IN  /\ history' = undone(history)
           /\ IF w.err # ""
              THEN /\ lastOp' = Op("undo", cmd.entry, ValueColumn, cmd.new_value,
                                   cmd.obj_backup, <<>>, FALSE, w.err, 0)
                   /\ UNCHANGED <<root_obj, changed_log>>
              ELSE /\ root_obj' = w.val
                   /\ changed_log' = Notify(changed_log, cmd.entry, "undo", w.val)
                   /\ lastOp' = Op("undo", cmd.entry, ValueColumn, cmd.new_value,
                                   cmd.obj_backup, <<>>, FALSE, "", 0)
    /\ UNCHANGED <<root_entry, hide_protected, visible_row, arr_subentries>>
    /\ UNCHANGED <<list_viewed_entries, entry_mapping_construct,
                   arr_construct, integer_format>>

\* the call returns its outcome to the consumer
Return ==
    /\ lastOp # Idle
    /\ lastOp' = Idle
    /\ UNCHANGED <<root_entry, root_obj, hide_protected, visible_row, arr_subentries,
                   history, changed_log>>
    /\ UNCHANGED <<list_viewed_entries, entry_mapping_construct,
                   arr_construct, integer_format>>

Next ==
    \/ \E obj \in ParsedObjs : Load(obj)
    \/ SetHideProtected
    \/ \E entry \in Entries \cup {NoEntry} : get_children(entry)
    \/ \E entry \in Entries : is_container(entry)
    \/ \E entry \in Entries \cup {NoEntry} : get_parent(entry)
    \/ \E entry \in EditEntries : \E new_value \in NewValues(entry) :
          set_value(new_value, entry, ValueColumn)
    \/ \E column \in Columns \ {ValueColumn} :
          set_value(PyInt(7), <<"c", -1>>, column)
    \/ undo
    \/ Return

Spec == Init /\ [][Next]_vars

\* ------------------------------------------------------------------------
\* Path addressing on its own: a parsed object, one write through an
\* entry's obj setter, reads through the obj getter, and path computations
\* ------------------------------------------------------------------------
AddrObjs == {ParsedObj(k, cv) : k \in 0..MaxLen, cv \in CondValues}

AddrValues == {PyNone, PyInt(7)}

InitAddr ==
    /\ root_entry = RootEntry
    /\ root_obj \in AddrObjs
    /\ hide_protected = TRUE
    /\ visible_row = [x \in Entries |-> FALSE]
    /\ arr_subentries = <<>>
    /\ history = <<>>
    /\ changed_log = <<>>
    /\ list_viewed_entries = <<>>
    /\ entry_mapping_construct = ShippedMapping
    /\ arr_construct = DeclaredArray
    /\ integer_format = IntegerFormat_Dec
    /\ lastOp = Idle

\* entry.obj = val
obj_write(entry, val) ==
    /\ lastOp = Idle
    /\ root_obj \in AddrObjs
    /\ LET w == obj_set(root_obj, path(entry), val)
       IN  /\ root_obj' = IF w.err = "" THEN w.val ELSE root_obj
           /\ lastOp' = Op("obj_set", entry, 0, val, PyNone, <<>>, FALSE, w.err, 0)
    /\ UNCHANGED <<root_entry, hide_protected, visible_row, arr_subentries,
                   history, changed_log>>
    /\ UNCHANGED <<list_viewed_entries, entry_mapping_construct,
                   arr_construct, integer_format>>

\* entry.obj, read after a write: val and ret keep the value written and the
\* entry written through, old is the value read
obj_read(entry) ==
    /\ lastOp.op = "obj_set"
    /\ LET r == obj_get(root_obj, path(entry))
       IN  lastOp' = Op("obj_get", entry, 0, lastOp.val, r.val, <<lastOp.entry>>,
                        lastOp.err = "", r.err, 0)
    /\ UNCHANGED <<root_entry, root_obj, hide_protected, visible_row, arr_subentries,
                   history, changed_log>>
    /\ UNCHANGED <<list_viewed_entries, entry_mapping_construct,
                   arr_construct, integer_format>>

\* entry.path
path_call(entry) ==
    /\ lastOp = Idle
    /\ lastOp' = [Op("path", entry, 0, PyNone, PyNone, <<>>, FALSE, "", 0)
                    EXCEPT !.pth = path(entry)]
    /\ UNCHANGED <<root_entry, root_obj, hide_protected, visible_row, arr_subentries,
                   history, changed_log>>
    /\ UNCHANGED <<list_viewed_entries, entry_mapping_construct,
                   arr_construct, integer_format>>

NextAddr ==
    \/ \E entry \in Tree(root_entry), val \in AddrValues : obj_write(entry, val)
    \/ \E entry \in Tree(root_entry) : obj_read(entry)
    \/ \E entry \in Entries : path_call(entry)
    \/ Return

SpecAddr == InitAddr /\ [][NextAddr]_vars


\* ------------------------------------------------------------------------
\* The views of a loaded tree: the columns of a row, the labels and children
\* of an entry, and the flat list, read between replacements of live values
\* ------------------------------------------------------------------------
\* ConstructEditorColumn.Name
NameColumn == 0

\* ConstructEditorColumn.Type
TypeColumn == 1

\* len(ConstructEditorColumn)
ColumnOffset == 3

\* a call that returned the string (or raised the exception) r; the array's
\* cache is not touched
returns_str(op, entry, column, r) ==
    /\ lastOp' = [Op(op, entry, column, lastOp.val, lastOp.old, <<>>, FALSE, r.err, 0)
                  EXCEPT !.str = r.val]
    /\ UNCHANGED <<arr_subentries, visible_row>>

\* the list-view column read one element further on
flat_value_off_by_one(k, f, robj) ==
    IF f.err # "" THEN RaiseStr(f.err)
    ELSE IF Len(f.list) > k + 1 THEN obj_str(f.list[k + 2], robj)
    ELSE Str("")

\* the list-view column k of a row, f its flat list
flat_value(k, f, robj) ==
    IF f.err # "" THEN RaiseStr(f.err)
    ELSE IF Len(f.list) > k THEN obj_str(f.list[k + 1], robj)
    ELSE Str("")

\* a call that walked the flat list f and returned r
returns_flat(op, entry, column, f, r) ==
    /\ arr_subentries' = f.cache
    /\ visible_row' = AfterRebuild(visible_row, arr_subentries, f.cache)
    /\ lastOp' = [Op(op, entry, column, lastOp.val, lastOp.old, f.list, FALSE,
                     IF f.err # "" THEN f.err ELSE r.err, 0)
                  EXCEPT !.str = r.val]

\* get_value of a list-view column
get_flat_value(entry, column, f) ==
    returns_flat("get_value", entry, column, f,
                 flat_value(column - ColumnOffset, f, root_obj))

\* the consumer reads an entry after a call has returned, or right after the
\* replacement of its value, whose old and new value the read then keeps in
\* old and val
Reading(entry) == lastOp = Idle \/ (lastOp.op = "replace" /\ lastOp.entry = entry)

get_value(entry, column) ==
    /\ Reading(entry)
    /\ root_entry # NoEntry
    /\ entry \in Tree(root_entry)
    /\ IF column = NameColumn
       THEN returns_str("get_value", entry, column, Str(name(entry)))
       ELSE IF column = TypeColumn
       THEN returns_str("get_value", entry, column, typ_str(entry, root_obj))
       ELSE IF column = ValueColumn
       THEN /\ lastOp' = Op("get_value", entry, column, lastOp.val, lastOp.old,
                            <<entry>>, FALSE, "", Len(arr_subentries))
            /\ UNCHANGED <<arr_subentries, visible_row>>
       ELSE IF \/ parent(entry) = NoEntry
               \/ parent(entry) \notin Range(list_viewed_entries)
       THEN returns_str("get_value", entry, column, Str(""))
       ELSE get_flat_value(entry, column,
                           create_flat_subentry_list(entry, arr_subentries, root_obj))
    /\ UNCHANGED <<root_entry, root_obj, hide_protected, history, changed_log,
                   list_viewed_entries, entry_mapping_construct,
                   arr_construct, integer_format>>

\* entry.create_flat_subentry_list(flat_subentry_list) on an empty list
flat_call(entry) ==
    /\ Reading(entry)
    /\ entry \in Tree(root_entry)
    /\ returns_flat("flat", entry, 0,
                    create_flat_subentry_list(entry, arr_subentries, root_obj),
                    Str(""))
    /\ UNCHANGED <<root_entry, root_obj, hide_protected, history, changed_log,
                   list_viewed_entries, entry_mapping_construct,
                   arr_construct, integer_format>>

\* entry.typ_str
typ_str_call(entry) ==
    /\ Reading(entry)
    /\ entry \in Tree(root_entry)
    /\ returns_str("typ_str", entry, 0, typ_str(entry, root_obj))
    /\ UNCHANGED <<root_entry, root_obj, hide_protected, history, changed_log,
                   list_viewed_entries, entry_mapping_construct,
                   arr_construct, integer_format>>

\* entry.obj_str
obj_str_call(entry) ==
    /\ Reading(entry)
    /\ entry \in Tree(root_entry)
    /\ returns_str("obj_str", entry, 0, obj_str(entry, root_obj))
    /\ UNCHANGED <<root_entry, root_obj, hide_protected, history, changed_log,
                   list_viewed_entries, entry_mapping_construct,
                   arr_construct, integer_format>>

\* entry.obj, r its outcome: old keeps the value read
returns_obj(entry, r) ==
    /\ lastOp' = Op("obj", entry, 0, lastOp.val, r.val, <<>>, FALSE, r.err, 0)
    /\ UNCHANGED <<arr_subentries, visible_row>>

\* entry.obj
obj_call(entry) ==
    /\ Reading(entry)
    /\ entry \in Tree(root_entry)
    /\ returns_obj(entry, obj_get(root_obj, path(entry)))
    /\ UNCHANGED <<root_entry, root_obj, hide_protected, history, changed_log,
                   list_viewed_entries, entry_mapping_construct,
                   arr_construct, integer_format>>

\* entry.subentries, s its outcome
returns_subentries(entry, s) ==
    /\ arr_subentries' = s.cache
    /\ visible_row' = AfterRebuild(visible_row, arr_subentries, s.cache)
    /\ lastOp' = Op("subentries", entry, 0, lastOp.val, lastOp.old, s.list,
                    s.present, s.err, Len(arr_subentries))

\* entry.subentries
subentries_call(entry) ==
    /\ Reading(entry)
    /\ entry \in Tree(root_entry)
    /\ returns_subentries(entry, subentries(entry, arr_subentries, root_obj))
    /\ UNCHANGED <<root_entry, root_obj, hide_protected, history, changed_log,
                   list_viewed_entries, entry_mapping_construct,
                   arr_construct, integer_format>>

\* the live value of an entry is replaced, w the outcome of entry.obj = val
replaced(entry, val, cur, w) ==
    /\ w.err = ""
    /\ root_obj' = w.val
    /\ lastOp' = Op("replace", entry, 0, val, cur.val, <<>>, FALSE, "", 0)

\* the application replaces the live value of an entry
replace_value(entry, val) ==
    /\ lastOp = Idle
    /\ replaced(entry, val, obj_get(root_obj, path(entry)),
                obj_set(root_obj, path(entry), val))
    /\ UNCHANGED <<root_entry, hide_protected, visible_row, arr_subentries, history,
                   changed_log, list_viewed_entries, entry_mapping_construct,
                   arr_construct, integer_format>>

\* the values a conditional holds: a then-value and an else-value with the
\* context they were parsed in, None, and an integer and a list without
\* metadata
CondReplacements == CondValues \cup {PyNone, PyInt(7), ListOfLen(1)}

\* the values an array holds: a list of each length, None and an integer
ArrReplacements == {ListOfLen(k) : k \in 0..MaxLen} \cup {PyNone, PyInt(7)}

\* the values a switch holds: an integer parsed under the tag A, a struct
\* parsed under the tag B, an integer parsed under a tag without a case,
\* None, and an integer without metadata
SwitchValues ==
    {add_gui_metadata(PyInt(5), "A"), add_gui_metadata(PyDict([y |-> PyInt(6)]), "B"),
     add_gui_metadata(PyInt(8), "Z")}

SwitchReplacements == SwitchValues \cup {PyNone, PyInt(7)}

Replacements(entry) ==
    CASE entry = <<"cond", -1>> -> CondReplacements
      [] entry = <<"arr", -1>>  -> ArrReplacements
      [] entry \in {<<"sw", -1>>, <<"sd", -1>>} -> SwitchReplacements
      [] OTHER -> {}

\* an object whose parse was not completed: the array and the conditional
\* are missing
PartialObj == PyDict([_b |-> PyDict([c |-> PyInt(1)]), n |-> PyInt(1)])

\* the objects loaded with each grammar
ViewObjs(re) ==
    IF re = RootEntry THEN AddrObjs \cup {PartialObj}
    ELSE {PyDict([sw |-> v, sd |-> v]) : v \in SwitchValues}

\* the contents of list_viewed_entries: nothing, the array, the root struct
ViewedLists(re) ==
    IF re = RootEntry THEN {<<>>, <<<<"arr_s", -1>>>>, <<RootEntry>>}
    ELSE {<<>>, <<SwitchRoot>>}

\* the columns asked for: the three fixed ones and the list-view columns
MaxColumn == 4

InitView ==
    /\ root_entry \in {RootEntry, SwitchRoot}
    /\ root_obj \in ViewObjs(root_entry)
    /\ hide_protected = TRUE
    /\ visible_row = [x \in Entries |-> FALSE]
    /\ arr_subentries = <<>>
    /\ history = <<>>
    /\ changed_log = <<>>
    /\ list_viewed_entries \in ViewedLists(root_entry)
    /\ entry_mapping_construct = ShippedMapping
    /\ arr_construct = DeclaredArray
    /\ integer_format = IntegerFormat_Dec
    /\ lastOp = Idle

NextView ==
    \/ \E entry \in Entries : \E column \in 0..MaxColumn : get_value(entry, column)
    \/ \E entry \in Entries : flat_call(entry)
    \/ \E entry \in Entries : typ_str_call(entry)
    \/ \E entry \in Entries : obj_str_call(entry)
    \/ \E entry \in Entries : subentries_call(entry)
    \/ \E entry \in Entries : obj_call(entry)
    \/ \E entry \in Tree(root_entry) : \E val \in Replacements(entry) :
          replace_value(entry, val)
    \/ Return

SpecView == InitView /\ [][NextView]_vars


\* ------------------------------------------------------------------------
\* The array of the grammar declared in each way, read between replacements
\* of its live value
\* ------------------------------------------------------------------------
InitArray ==
    /\ root_entry = RootEntry
    /\ root_obj \in ViewObjs(RootEntry)
    /\ hide_protected = TRUE
    /\ visible_row = [x \in Entries |-> FALSE]
    /\ arr_subentries = <<>>
    /\ history = <<>>
    /\ changed_log = <<>>
    /\ list_viewed_entries = <<>>
    /\ entry_mapping_construct = ShippedMapping
    /\ arr_construct \in ArrayConstructs
    /\ integer_format = IntegerFormat_Dec
    /\ lastOp = Idle

\* the array's name wrapper and the array entry
ArrayRows == {<<"arr", -1>>, <<"arr_s", -1>>}

NextArray ==
    \/ \E entry \in ArrayRows : subentries_call(entry)
    \/ \E entry \in ArrayRows : typ_str_call(entry)
    \/ \E val \in ArrReplacements : replace_value(<<"arr", -1>>, val)
    \/ Return

SpecArray == InitArray /\ [][NextArray]_vars


\* ------------------------------------------------------------------------
\* The registry extended by an application and asked for entry classes
\* ------------------------------------------------------------------------
\* the classes an application registers
MaxRegistered == 2

RegisteredKeys == {"Subconstruct", "Adapter", "MyStruct", "Struct"}

RegisteredValues == {"EntryTransparentSubcon", "EntryCustom"}

\* entry_mapping_construct[key] = value, by an application
register(key, value) ==
    /\ lastOp = Idle
    /\ Len(entry_mapping_construct) < Len(ShippedMapping) + MaxRegistered
    /\ entry_mapping_construct' = mapping_set(entry_mapping_construct, key, value)
    /\ entry_mapping_construct' # entry_mapping_construct
    /\ UNCHANGED <<root_entry, root_obj, hide_protected, visible_row, arr_subentries,
                   history, changed_log, list_viewed_entries, arr_construct,
                   integer_format, lastOp>>

\* the call returned the class (or raised the exception) r; str keeps the
\* type of subcon and the class, err the exception
returns_entry(ty, r) ==
    lastOp' = [Op("create", NoEntry, 0, PyNone, PyNone, <<>>, FALSE, r.err, 0)
                 EXCEPT !.str = r.val, !.pth = <<ty>>]

\* create_entry_from_construct(model, parent, subcon)
create_call(ty) ==
    /\ lastOp = Idle
    /\ returns_entry(ty, create_entry_from_construct(entry_mapping_construct, ty))
    /\ UNCHANGED <<root_entry, root_obj, hide_protected, visible_row, arr_subentries,
                   history, changed_log, list_viewed_entries, entry_mapping_construct,
                   arr_construct, integer_format>>

NextFactory ==
    \/ \E key \in RegisteredKeys, value \in RegisteredValues : register(key, value)
    \/ \E ty \in ConstructTypes : create_call(ty)
    \/ Return

SpecFactory == Init /\ [][NextFactory]_vars


\* ------------------------------------------------------------------------
\* The context menu of a row and its list-view item
\* ------------------------------------------------------------------------
\* the object parsed with the third grammar
ListObj ==
    PyDict([p |-> PyList(<<PyDict([pf |-> PyInt(1)])>>),
            q |-> PyList(<<PyDict([qf |-> PyInt(1)])>>),
            r |-> ListOfLen(1)])

\* create_entry_from_construct(self.model, self, self.construct.subcon) of an
\* array entry
temp_subentry(e) == subentry(e)

RECURSIVE list_view_item(_, _, _)
\* the array whose "Enable List View" item modify_context_menu of the entry
\* appends to the menu, NoEntry when it appends none
list_view_item(e, cache, robj) ==
    CASE Kind(e) = "Renamed" -> list_view_item(subentry(e), cache, robj)
      [] Kind(e) = "Array" ->
            IF subentries(temp_subentry(e), cache, robj).present THEN e ELSE NoEntry
      [] OTHER -> NoEntry

\* a click that appends the entry whether it is listed or not
clicked_appending(list, self) == Append(list, self)

\* on_menu_item_clicked: list.remove(self) when self is in the list,
\* list.append(self) otherwise
clicked(list, self) ==
    IF self \in Range(list)
    THEN LET i == CHOOSE k \in 1..Len(list) :
                      list[k] = self /\ \A j \in 1..(k - 1) : list[j] # self
         IN  SubSeq(list, 1, i - 1) \o SubSeq(list, i + 1, Len(list))
    ELSE Append(list, self)

\* the nodes of a list of entries
nodes_of(list) == [i \in 1..Len(list) |-> list[i][1]]

InitMenu ==
    /\ root_entry = ListRoot
    /\ root_obj = ListObj
    /\ hide_protected = TRUE
    /\ visible_row = [x \in Entries |-> FALSE]
    /\ arr_subentries = <<>>
    /\ history = <<>>
    /\ changed_log = <<>>
    /\ list_viewed_entries = <<>>
    /\ entry_mapping_construct = ShippedMapping
    /\ arr_construct = DeclaredArray
    /\ integer_format = IntegerFormat_Dec
    /\ lastOp = Idle

\* the user right-clicks a row: entry.modify_context_menu(menu); flag is the
\* check mark of the list-view item. A menu opened right after a click keeps
\* in ret and str the list before that click and the array clicked
modify_context_menu(entry) ==
    /\ lastOp = Idle \/ lastOp.op = "clicked"
    /\ entry \in Tree(root_entry)
    /\ lastOp' = [Op("menu", entry, 0, PyNone, PyNone,
                     IF lastOp.op = "clicked" THEN lastOp.ret ELSE <<>>,
                     list_view_item(entry, arr_subentries, root_obj)
                        \in Range(list_viewed_entries),
                     "", 0)
                  EXCEPT !.str = IF lastOp.op = "clicked" THEN lastOp.entry[1] ELSE ""]
    /\ UNCHANGED <<root_entry, root_obj, hide_protected, visible_row, arr_subentries,
                   history, changed_log>>
    /\ UNCHANGED <<list_viewed_entries, entry_mapping_construct,
                   arr_construct, integer_format>>

\* the user clicks the list-view item of the open menu: ret is the list
\* before the click, str and pth the array of the click before it and the
\* nodes of the list before that one
on_menu_item_clicked ==
    /\ lastOp.op = "menu"
    /\ list_view_item(lastOp.entry, arr_subentries, root_obj) # NoEntry
    /\ list_viewed_entries' =
          clicked(list_viewed_entries,
                  list_view_item(lastOp.entry, arr_subentries, root_obj))
    /\ lastOp' = [Op("clicked", list_view_item(lastOp.entry, arr_subentries, root_obj),
                     0, PyNone, PyNone, list_viewed_entries, FALSE, "", 0)
                  EXCEPT !.str = lastOp.str, !.pth = nodes_of(lastOp.ret)]
    /\ UNCHANGED <<root_entry, root_obj, hide_protected, visible_row, arr_subentries,
                   history, changed_log, entry_mapping_construct, arr_construct, integer_format>>

NextMenu ==
    \/ \E entry \in Entries : modify_context_menu(entry)
    \/ on_menu_item_clicked
    \/ Return

SpecMenu == InitMenu /\ [][NextMenu]_vars


\* ------------------------------------------------------------------------
\* Edits of a loaded tree under each setting of the display
\* ------------------------------------------------------------------------
IntegerFormat == {IntegerFormat_Dec, IntegerFormat_Hex}

InitEdit ==
    /\ root_entry = RootEntry
    /\ root_obj \in ParsedObjs
    /\ hide_protected \in BOOLEAN
    /\ visible_row = [x \in Entries |-> FALSE]
    /\ arr_subentries = <<>>
    /\ history = <<>>
    /\ changed_log = <<>>
    /\ list_viewed_entries \in ViewedLists(RootEntry)
    /\ entry_mapping_construct = ShippedMapping
    /\ arr_construct = DeclaredArray
    /\ integer_format \in IntegerFormat
    /\ lastOp = Idle

\* the entries whose path is empty: the root, a Renamed that wraps a Renamed
\* of its own name, and an unnamed field of the root
EmptyPathEntries == {RootEntry, <<"n", -1>>, <<"pad", -1>>}

NextEdit ==
    \/ \E entry \in EditEntries \cup EmptyPathEntries : \E val \in NewValues(entry) : \E column \in Columns :
          set_value(val, entry, column)
    \/ undo
    \/ Return

SpecEdit == InitEdit /\ [][NextEdit]_vars


\* ------------------------------------------------------------------------
\* Properties
\* ------------------------------------------------------------------------
Loaded == root_entry # NoEntry

\* the entries that stand for the grammar's array: the field and the
\* EntryArray it wraps
ArrayEntries == {<<"arr", -1>>, <<"arr_s", -1>>}

\* the live value at an entry's path, as a read returns it now
LiveAt(e) == obj_get(root_obj, path(e))

IsLiveList(e) == LiveAt(e).err = "" /\ LiveAt(e).val.t = "list"

\* the calls of on_value_changed: which entry, from do or from undo
LogCalls(log) == [i \in 1..Len(log) |-> <<log[i].entry, log[i].phase>>]

RECURSIVE IsLeafEntry(_)
\* an entry whose children are absent whatever the live value: a leaf, or a
\* rename of one
IsLeafEntry(e) ==
    \/ Kind(e) = "Leaf"
    \/ Kind(e) = "Renamed" /\ IsLeafEntry(subentry(e))

\* C1: get_children of the array entry, while the live value at its path is
\* a list of length N, returns exactly the N children named "0".."N-1" in
\* index order, whatever edits and undos came before and whatever children
\* were cached.
C1_ArrayChildrenFollowLiveList ==
    (/\ lastOp.op = "get_children"
     /\ Loaded
     /\ lastOp.entry \in ArrayEntries
     /\ IsLiveList(lastOp.entry))
    => LET N == Len(LiveAt(lastOp.entry).val.v)
       IN  /\ lastOp.err = ""
           /\ Len(lastOp.ret) = N
           /\ \A i \in 1..N : /\ lastOp.ret[i] = <<"el", i - 1>>
                              /\ name(lastOp.ret[i]) = ToString(i - 1)
           /\ arr_subentries = lastOp.ret

\* C1 witness: after an edit, the array entry is asked for its children
\* while it caches children of another, non-zero, count
C1_Witness ==
    /\ lastOp.op = "get_children"
    /\ lastOp.entry = <<"arr", -1>>
    /\ IsLiveList(lastOp.entry)
    /\ changed_log # <<>>
    /\ lastOp.n0 > 0
    /\ lastOp.n0 # Len(LiveAt(lastOp.entry).val.v)
    /\ Len(lastOp.ret) = Len(LiveAt(lastOp.entry).val.v)

\* C2: once set_value(v, e, Value) has returned for an entry with a
\* non-empty path, a read of e's path observes v; once the command's undo
\* has run, the read observes the value that was there before the set_value.
C2_SetThenUndoObserved ==
    /\ (/\ lastOp.op = "set_value"
        /\ lastOp.err = ""
        /\ path(lastOp.entry) # <<>>)
       => /\ LiveAt(lastOp.entry).err = ""
          /\ Plain(LiveAt(lastOp.entry).val) = Plain(lastOp.val)
    /\ (lastOp.op = "undo" /\ lastOp.err = "")
       => /\ LiveAt(lastOp.entry).err = ""
          /\ LiveAt(lastOp.entry).val = lastOp.old

\* C3: a set_value that submits its command calls on_value_changed exactly
\* once, with the edited entry, from do; the undo of the command calls it
\* exactly once more, with the same entry; no other step calls it.
C3_NotifiedOncePerDoAndUndo ==
    [][LET calls == LogCalls(changed_log)
           calls2 == LogCalls(changed_log')
       IN  IF lastOp'.op = "set_value" /\ lastOp'.err = "" /\ lastOp = Idle
           THEN calls2 = Append(calls, <<lastOp'.entry, "do">>)
           ELSE IF lastOp'.op = "undo" /\ lastOp'.err = "" /\ lastOp = Idle
           THEN /\ calls2 = Append(calls, <<lastOp'.entry, "undo">>)
                /\ lastOp'.entry = history[Len(history)].entry
           ELSE calls2 = calls]_vars

\* C3 witness: a leaf was edited and the edit undone: two calls in all, the
\* first from do and the second from undo, both with the leaf
C3_Witness ==
    /\ lastOp.op = "undo"
    /\ lastOp.err = ""
    /\ lastOp.entry = <<"c", -1>>
    /\ LogCalls(changed_log) = <<<<lastOp.entry, "do">>, <<lastOp.entry, "undo">>>>

\* C4: set_value with a column other than the value column raises
\* ValueError and changes nothing: the live object, the commands held by
\* the command processor and the calls of on_value_changed stay as they were.
C4_InvalidColumnRejected ==
    [][(lastOp'.op = "set_value" /\ lastOp = Idle /\ lastOp'.col # ValueColumn)
       => /\ lastOp'.err = "ValueError"
          /\ root_obj' = root_obj
          /\ history' = history
          /\ changed_log' = changed_log]_vars

\* C4 witness: a set_value on the name column or on a list-view column was
\* rejected
C4_Witness ==
    /\ lastOp.op = "set_value"
    /\ lastOp.col \in {0, 3}
    /\ lastOp.err = "ValueError"

\* C5: for a leaf entry e and a value v, a write through e's path that
\* returns, followed by a read through the same path, returns v.
C5_WriteReadRoundTrip ==
    (/\ lastOp.op = "obj_get"
     /\ lastOp.ret = <<lastOp.entry>>
     /\ Kind(lastOp.entry) = "Leaf"
     /\ lastOp.flag)
    => /\ lastOp.err = ""
       /\ lastOp.old = lastOp.val

\* an entry marked exclude-from-path: a rename whose flag is set
Marked(e) == Kind(e) = "Renamed" /\ exclude_from_path(e)

\* C6: the path of the root is empty; the path of any other entry is its
\* parent's path followed by its name when the name is non-empty and the
\* entry is not marked exclude-from-path, and is the parent's path otherwise;
\* this holds of every path computed, whatever paths were computed before.
C6_PathExtendsParentPath ==
    lastOp.op = "path"
    => lastOp.pth =
          IF parent(lastOp.entry) = NoEntry THEN <<>>
          ELSE IF name(lastOp.entry) # "" /\ ~Marked(lastOp.entry)
          THEN Append(path(parent(lastOp.entry)), name(lastOp.entry))
          ELSE path(parent(lastOp.entry))

\* C6 witness: the path of the leaf under the then-branch's field "x" was
\* computed: the branch wrapper and the unnamed entries add no segment
C6_Witness ==
    /\ lastOp.op = "path"
    /\ lastOp.entry = <<"x_s", -1>>
    /\ lastOp.pth = <<"cond", "x">>
    /\ Marked(<<"then", -1>>)

\* C7: with hide_protected set, get_children of an entry returns, in order,
\* its children whose name is non-empty and does not start with "_", marks
\* these visible and the others not visible; with hide_protected clear it
\* returns every child and marks every child visible.
C7_HideProtectedFilter ==
    (/\ lastOp.op = "get_children"
     /\ Loaded
     /\ lastOp.entry # NoEntry
     /\ lastOp.err = ""
     /\ subentries(lastOp.entry, arr_subentries, root_obj).present)
    => LET kids == subentries(lastOp.entry, arr_subentries, root_obj).list
           Surfaced(c) == name(c) # "" /\ ~startswith_underscore(name(c))
       IN  IF hide_protected
           THEN /\ lastOp.ret = SelectSeq(kids, Surfaced)
                /\ \A i \in 1..Len(kids) : visible_row[kids[i]] = Surfaced(kids[i])
           ELSE /\ lastOp.ret = kids
                /\ \A i \in 1..Len(kids) : visible_row[kids[i]]

\* C7 witness: the root struct was asked for its children with
\* hide_protected set: "_b" and the unnamed field are dropped and marked
\* not visible
C7_Witness ==
    /\ lastOp.op = "get_children"
    /\ lastOp.entry = RootEntry
    /\ Loaded
    /\ hide_protected
    /\ lastOp.ret = <<<<"arr", -1>>, <<"cond", -1>>, <<"n", -1>>>>
    /\ ~visible_row[<<"b", -1>>]
    /\ ~visible_row[<<"pad", -1>>]
    /\ visible_row[<<"arr", -1>>]

\* C8: get_parent of every entry that get_children returned for a visible
\* row e is e; get_parent of the absent entry and of the root is None.
C8_ParentOfSurfacedChild ==
    /\ (/\ lastOp.op = "get_children"
        /\ Loaded
        /\ lastOp.entry # NoEntry
        /\ visible_row[lastOp.entry])
       => \A i \in 1..Len(lastOp.ret) :
             parent_of(lastOp.ret[i], visible_row) = lastOp.entry
    /\ (lastOp.op = "get_parent" /\ lastOp.entry \in {NoEntry, root_entry})
       => lastOp.ret = <<NoEntry>>

\* C9: get_children of the absent entry returns the root entry alone and
\* marks it visible when a root is loaded; with no root loaded get_children
\* returns the empty list for the absent entry and for any entry.
C9_RootRequest ==
    lastOp.op = "get_children"
    => /\ ~Loaded => lastOp.ret = <<>> /\ lastOp.err = ""
       /\ (Loaded /\ lastOp.entry = NoEntry)
          => /\ lastOp.ret = <<root_entry>>
             /\ visible_row[root_entry]
             /\ lastOp.err = ""

\* C9 witness: the root was requested from a model with a root loaded
C9_Witness ==
    /\ lastOp.op = "get_children"
    /\ lastOp.entry = NoEntry
    /\ Loaded
    /\ lastOp.ret = <<RootEntry>>

\* C10: is_container is true exactly when the entry's children are present;
\* the array over a live list of length 0 is a container although it has no
\* child; a leaf is no container and get_children of it is empty.
C10_ContainerIffChildrenPresent ==
    /\ (lastOp.op = "is_container" /\ lastOp.err = "")
       => /\ lastOp.flag = subentries(lastOp.entry, arr_subentries, root_obj).present
          /\ (/\ lastOp.entry \in ArrayEntries
              /\ IsLiveList(lastOp.entry)
              /\ LiveAt(lastOp.entry).val.v = <<>>) => lastOp.flag
          /\ IsLeafEntry(lastOp.entry) => ~lastOp.flag
    /\ (/\ lastOp.op = "get_children"
        /\ Loaded
        /\ lastOp.entry # NoEntry
        /\ IsLeafEntry(lastOp.entry))
       => lastOp.ret = <<>> /\ lastOp.err = ""

\* C10 witness: the array entry, over a live list of length 0, was found to
\* be a container
C10_Witness ==
    /\ lastOp.op = "is_container"
    /\ lastOp.entry = <<"arr", -1>>
    /\ IsLiveList(lastOp.entry)
    /\ LiveAt(lastOp.entry).val.v = <<>>
    /\ arr_subentries = <<>>
    /\ lastOp.flag


\* the outcome r of a string-valued call is what lastOp records
Recorded(r) == lastOp.err = r.err /\ lastOp.str = r.val

\* the entries in list view contain the parent of e
InListView(e) == parent(e) # NoEntry /\ parent(e) \in Range(list_viewed_entries)

\* element i (from 0) of the flat list f, rendered, or the empty string
ElementLabel(f, i) ==
    IF f.err # "" THEN RaiseStr(f.err)
    ELSE IF i < Len(f.list) THEN obj_str(f.list[i + 1], root_obj)
    ELSE Str("")

\* C11: get_value(entry, column) returns the entry's name for column 0, its
\* type label for column 1 and the entry itself for column 2; for a column
\* k > 2 it returns the empty string unless the entry's parent is in
\* list_viewed_entries, and then the value label of element k - 3 of the
\* entry's flat list, or the empty string when the list is shorter.
C11_ValueAtColumn ==
    lastOp.op = "get_value" =>
        /\ lastOp.col = 0 => Recorded(Str(name(lastOp.entry)))
        /\ lastOp.col = 1 => Recorded(typ_str(lastOp.entry, root_obj))
        /\ lastOp.col = 2 => lastOp.ret = <<lastOp.entry>> /\ lastOp.err = ""
        /\ lastOp.col > 2 /\ ~InListView(lastOp.entry) => Recorded(Str(""))
        /\ lastOp.col > 2 /\ InListView(lastOp.entry) =>
              Recorded(ElementLabel(
                  create_flat_subentry_list(lastOp.entry, arr_subentries, root_obj),
                  lastOp.col - 3))

\* a list-view column past the first showed the value of a leaf
C11_Witness ==
    /\ lastOp.op = "get_value"
    /\ lastOp.col > 3
    /\ InListView(lastOp.entry)
    /\ lastOp.err = ""
    /\ lastOp.str # ""


\* the children a subentries outcome s presents
kids_of(s) == IF s.err = "" /\ s.present THEN s.list ELSE <<>>

\* the children of e in the current state
Kids(e) == kids_of(subentries(e, arr_subentries, root_obj))

\* the subentries of e are None
absent(s) == s.err = "" /\ ~s.present

AbsentChildren(e) == absent(subentries(e, arr_subentries, root_obj))

\* the entries of the subtree of e, by the children relation
RECURSIVE Under(_)
under_each(ks) == UNION {Under(ks[i]) : i \in DOMAIN ks}

Under(e) == {e} \cup under_each(Kids(e))

LeafSet(e) == {d \in Under(e) : AbsentChildren(d)}

\* the places of d in a list
Places(list, d) == {i \in DOMAIN list : list[i] = d}

\* in list, every leaf under an earlier child of ks precedes every leaf
\* under a later one
ChildrenInOrder(list, ks) ==
    \A i, j \in DOMAIN ks : i < j =>
        \A a \in LeafSet(ks[i]), b \in LeafSet(ks[j]) :
            \A m \in Places(list, a), n \in Places(list, b) : m < n

\* C12: create_flat_subentry_list yields every entry of the subtree whose
\* subentries are None exactly once and no entry whose subentries are
\* present; the list is as long as the subtree has such leaves, and they come
\* in depth-first, left-to-right order of the children, so a container with
\* an empty children list contributes nothing.
C12_FlatListIsTheLeaves ==
    lastOp.op = "flat" /\ lastOp.err = "" =>
        /\ \A d \in LeafSet(lastOp.entry) : Cardinality(Places(lastOp.ret, d)) = 1
        /\ \A i \in DOMAIN lastOp.ret : lastOp.ret[i] \in LeafSet(lastOp.entry)
        /\ Len(lastOp.ret) = Cardinality(LeafSet(lastOp.entry))
        /\ \A c \in Under(lastOp.entry) : ChildrenInOrder(lastOp.ret, Kids(c))

\* the root was flattened to three leaves or more past an empty array
C12_Witness ==
    /\ lastOp.op = "flat"
    /\ lastOp.err = ""
    /\ lastOp.entry = RootEntry
    /\ Len(lastOp.ret) >= 3
    /\ \E c \in Under(lastOp.entry) : ~AbsentChildren(c) /\ Kids(c) = <<>>


Names(list) == [i \in DOMAIN list |-> name(list[i])]

Paths(list) == [i \in DOMAIN list |-> path(list[i])]

\* get_children(entry) called again in the state its first call left, s the
\* subentries it finds: it returns the names and paths the first call
\* returned, and rebuilds and marks nothing anew
SecondCallSame(entry, s) ==
    /\ s.err = ""
    /\ s.cache = arr_subentries
    /\ IF s.present
       THEN /\ Names(children_of(s.list, hide_protected)) = Names(lastOp.ret)
            /\ Paths(children_of(s.list, hide_protected)) = Paths(lastOp.ret)
            /\ mark_children(visible_row, s.list, hide_protected) = visible_row
       ELSE lastOp.ret = <<>>

\* C13: get_children called twice on the same entry with no mutation in
\* between returns the same sequence of names and of paths, and the second
\* call leaves the visible_row marks as the first call set them.
C13_GetChildrenIdempotent ==
    lastOp.op = "get_children" /\ lastOp.err = "" =>
        IF root_entry = NoEntry THEN lastOp.ret = <<>>
        ELSE IF lastOp.entry = NoEntry
        THEN /\ lastOp.ret = <<root_entry>>
             /\ mark_root(visible_row, root_entry) = visible_row
        ELSE SecondCallSame(lastOp.entry,
                            subentries(lastOp.entry, arr_subentries, root_obj))

\* get_children returned the children of an array it had to rebuild from
\* another length
C13_Witness ==
    /\ lastOp.op = "get_children"
    /\ lastOp.err = ""
    /\ lastOp.n0 > 0
    /\ lastOp.n0 # Len(arr_subentries)
    /\ Len(lastOp.ret) > 0


\* the entry a name wrapper stands for
Wrapped(e) == IF Kind(e) = "Renamed" THEN subentry(e) ELSE e

\* the context the live value of e was parsed in, NoMeta when there is no
\* such value
LiveContext(r) ==
    IF r.err # "" \/ r.val.t = "none" THEN NoMeta ELSE get_gui_metadata(r.val)

\* the outcome s of entry.subentries is what lastOp records
RecordedSub(s) ==
    lastOp.err = s.err /\ lastOp.flag = s.present /\ lastOp.ret = s.list

\* the read lastOp records gave what the same read of the entry br gives
ReadsAs(br) ==
    /\ lastOp.op = "typ_str" => Recorded(typ_str(br, root_obj))
    /\ lastOp.op = "obj_str" => Recorded(obj_str(br, root_obj))
    /\ lastOp.op = "subentries" => RecordedSub(subentries(br, arr_subentries, root_obj))

\* a read of a conditional, whose live value was parsed in context c, gave
\* what its then-branch gives when c makes the condition true and what its
\* else-branch gives when c makes it false
ReadsAsBranch(e, c) ==
    /\ c = "T" => ReadsAs(subentry(<<"then", e[2]>>))
    /\ c = "F" => ReadsAs(subentry(<<"else", e[2]>>))

\* C14: the active branch of a conditional is evaluated anew from the live
\* object on every access: whatever the value was before, when the live
\* condition is false the type label, the value label and the children are
\* those of the else-branch, and when it is true those of the then-branch.
C14_BranchFollowsLiveCondition ==
    /\ lastOp.op \in {"typ_str", "obj_str", "subentries"}
    /\ Kind(Wrapped(lastOp.entry)) = "IfThenElse"
    => ReadsAsBranch(Wrapped(lastOp.entry),
                     LiveContext(obj_get(root_obj, path(lastOp.entry))))

\* the conditional was read right after its value went from a then-value
\* to an else-value
C14_Witness ==
    /\ lastOp.op \in {"typ_str", "obj_str", "subentries"}
    /\ Kind(Wrapped(lastOp.entry)) = "IfThenElse"
    /\ get_gui_metadata(lastOp.old) = "T"
    /\ get_gui_metadata(lastOp.val) = "F"
    /\ lastOp.err = ""


AddressingErrors == {"KeyError", "IndexError", "ValueError"}

\* a segment of the path p, followed from obj, is not a key of the dict it
\* is applied to, or not the decimal rendering of an index within the list
\* it is applied to
RECURSIVE MissingSegment(_, _)
MissingSegment(obj, p) ==
    /\ p # <<>>
    /\ \/ obj.t = "dict" /\ Head(p) \notin DOMAIN obj.v
       \/ obj.t = "dict" /\ Head(p) \in DOMAIN obj.v
                         /\ MissingSegment(obj.v[Head(p)], Tail(p))
       \/ obj.t = "list" /\ \A i \in 1..Len(obj.v) : ToString(i - 1) # Head(p)
       \/ obj.t = "list" /\ \E i \in 1..Len(obj.v) :
              ToString(i - 1) = Head(p) /\ MissingSegment(obj.v[i], Tail(p))

\* C16: a read of entry.obj raises KeyError, IndexError or ValueError to
\* its caller whenever a segment of the path is not a key of the dict or
\* not an index within the list it is applied to, and the read leaves
\* root_obj as it was.
C16_ReadFailsOnMissingSegment ==
    [][lastOp'.op = "obj" /\ lastOp.op # "obj" =>
          /\ root_obj' = root_obj
          /\ MissingSegment(root_obj, path(lastOp'.entry)) =>
                 lastOp'.err \in AddressingErrors]_vars

\* a read failed on a key that is not in the object
C16_Witness ==
    /\ lastOp.op = "obj"
    /\ lastOp.err = "KeyError"
    /\ MissingSegment(root_obj, path(lastOp.entry))


\* the path p, followed from obj, has a segment left when it reaches a value
\* that is neither a dict nor a list
RECURSIVE PastLeaf(_, _)
PastLeaf(obj, p) ==
    /\ p # <<>>
    /\ \/ obj.t \notin {"dict", "list"}
       \/ obj.t = "dict" /\ Head(p) \in DOMAIN obj.v
                         /\ PastLeaf(obj.v[Head(p)], Tail(p))
       \/ obj.t = "list" /\ \E i \in 1..Len(obj.v) :
              ToString(i - 1) = Head(p) /\ PastLeaf(obj.v[i], Tail(p))

\* C17: a read and a write of entry.obj fail with an exception when the
\* path runs past a leaf; in particular the write does not return normally
\* without having assigned the value.
C17_PastLeafFails ==
    [][/\ lastOp'.op \in {"obj_set", "obj_get"}
       /\ PastLeaf(root_obj, path(lastOp'.entry))
       => lastOp'.err # ""]_vars


\* the places of the registry whose key is the type ty or a base class of it
Matching(mapping, ty) == {i \in DOMAIN mapping : isinstance(ty, mapping[i].key)}

Exact(mapping, ty) == {i \in DOMAIN mapping : mapping[i].key = ty}

First(places) == CHOOSE i \in places : \A j \in places : i <= j

\* the class the lookup order gives for a subcon of type ty
Selected(mapping, ty) ==
    IF Exact(mapping, ty) # {} THEN Created(mapping[First(Exact(mapping, ty))].value)
    ELSE IF Matching(mapping, ty) # {}
    THEN Created(mapping[First(Matching(mapping, ty))].value)
    ELSE IF isinstance(ty, "Construct") THEN Created("EntryConstruct")
    ELSE RaiseStr("ValueError")

\* C18: create_entry_from_construct selects the class registered for the
\* exact type of the subcon if there is one, even when a base class of it
\* is registered earlier; otherwise the class of the first item, in the
\* order of registration, whose key is a base class of the type; otherwise
\* the generic EntryConstruct if the subcon is a Construct; otherwise it
\* raises ValueError.
C18_FactoryLookupOrder ==
    lastOp.op = "create" => Recorded(Selected(entry_mapping_construct, lastOp.pth[1]))

\* a class was selected by exact type although a base class of the type is
\* registered before it
C18_Witness ==
    /\ lastOp.op = "create"
    /\ lastOp.err = ""
    /\ Exact(entry_mapping_construct, lastOp.pth[1]) # {}
    /\ First(Matching(entry_mapping_construct, lastOp.pth[1]))
           < First(Exact(entry_mapping_construct, lastOp.pth[1]))
    /\ lastOp.str # entry_mapping_construct[
           First(Matching(entry_mapping_construct, lastOp.pth[1]))].value


\* the outcome r of a read of the live value is a malformed value: no value
\* could be read, or the value is not None and has no context metadata
Malformed(r) ==
    r.err # "" \/ (r.val.t # "none" /\ get_gui_metadata(r.val) = NoMeta)

\* the branch wrappers of a conditional or a switch
Branches(e) ==
    IF Kind(e) = "Switch" THEN EntrySwitch_branches(e)
    ELSE <<<<"then", e[2]>>, <<"else", e[2]>>>>

\* the read lastOp records gave what a conditional or switch e without an
\* active branch gives
ReadsAsNoBranch(e) ==
    /\ lastOp.err = ""
    /\ lastOp.op = "typ_str" => lastOp.str = Kind(e)
    /\ lastOp.op = "obj_str" => lastOp.str = ""
    /\ lastOp.op = "subentries" => lastOp.flag /\ lastOp.ret = Branches(e)

\* C19: typ_str, obj_str and subentries of a conditional or a switch never
\* raise because of a malformed live value (one that cannot be read at the
\* entry's path, or one that is not None and has no context metadata); they
\* return what they return when no branch is active.
C19_MalformedValueAbsorbed ==
    /\ lastOp.op \in {"typ_str", "obj_str", "subentries"}
    /\ Kind(Wrapped(lastOp.entry)) \in {"IfThenElse", "Switch"}
    /\ Malformed(obj_get(root_obj, path(lastOp.entry)))
    => ReadsAsNoBranch(Wrapped(lastOp.entry))


\* the number of children the live value r and the declared count call for
ExpectedChildren(r, c) ==
    IF r.err = "" /\ r.val.t = "list" THEN Len(r.val.v)
    ELSE IF c.cls = "Array" /\ c.static THEN c.count
    ELSE 1

\* C20: the subentries of an array entry are as many as the live value at
\* its path is long whenever it has a length; when it cannot be read or has
\* no length they are as many as the declared count if that is an int, and
\* one otherwise; the access raises no exception.
C20_ArrayChildrenCount ==
    lastOp.op = "subentries" /\ Kind(Wrapped(lastOp.entry)) = "Array" =>
        /\ lastOp.err = ""
        /\ lastOp.flag
        /\ Len(lastOp.ret) =
              ExpectedChildren(obj_get(root_obj, path(lastOp.entry)), arr_construct)

\* an array without a static count, whose value could not be read, showed
\* one child
C20_Witness ==
    /\ lastOp.op = "subentries"
    /\ Kind(Wrapped(lastOp.entry)) = "Array"
    /\ obj_get(root_obj, path(lastOp.entry)).err # ""
    /\ ~arr_construct.static
    /\ Len(lastOp.ret) = 1


\* the live value r is None
IsNone(r) == r.err = "" /\ r.val.t = "none"

\* C21: while the live value at a conditional's path is None the entry has
\* no active branch: typ_str is "IfThenElse", obj_str is empty, and
\* subentries is the list of the two branch wrappers made by the
\* constructor, then before else, whatever the value was before.
C21_NoBranchWhileNone ==
    /\ lastOp.op \in {"typ_str", "obj_str", "subentries"}
    /\ Kind(Wrapped(lastOp.entry)) = "IfThenElse"
    /\ IsNone(obj_get(root_obj, path(lastOp.entry)))
    => /\ lastOp.err = ""
       /\ lastOp.op = "typ_str" => lastOp.str = "IfThenElse"
       /\ lastOp.op = "obj_str" => lastOp.str = ""
       /\ lastOp.op = "subentries" =>
             /\ lastOp.flag
             /\ lastOp.ret = <<<<"then", Wrapped(lastOp.entry)[2]>>,
                               <<"else", Wrapped(lastOp.entry)[2]>>>>

\* the children of a conditional were read right after its then-value was
\* replaced by None
C21_Witness ==
    /\ lastOp.op = "subentries"
    /\ Kind(Wrapped(lastOp.entry)) = "IfThenElse"
    /\ get_gui_metadata(lastOp.old) = "T"
    /\ lastOp.val = PyNone
    /\ Len(lastOp.ret) = 2


\* the case wrappers of a switch in the order of their declaration, without
\* the default wrapper
CaseWrappers(e) ==
    SelectSeq(EntrySwitch_branches(e), LAMBDA w : w # subentry_default(e))

\* a read of a switch e, whose live value was parsed in context c, gave what
\* the branch of the key of c gives, what the default branch gives when the
\* key has no case, and the rendering without a branch when there is no
\* default either
ReadsAsCase(e, c) ==
    IF keyfunc(c) \in DOMAIN subentry_cases(e)
    THEN ReadsAs(subentry(subentry_cases(e)[keyfunc(c)]))
    ELSE IF subentry_default(e) # NoEntry
    THEN ReadsAs(subentry(subentry_default(e)))
    ELSE /\ lastOp.err = ""
         /\ lastOp.op = "typ_str" => lastOp.str = "Switch"
         /\ lastOp.op = "obj_str" => lastOp.str = ""
         /\ lastOp.op = "subentries" => lastOp.flag /\ lastOp.ret = CaseWrappers(e)

\* C22: a switch whose live value is present and carries a context gives
\* as typ_str, obj_str and subentries those of the case branch registered
\* for the key of the context; for a key without a case those of the
\* default branch if one is declared, and otherwise "Switch", the empty
\* string and the case wrappers in declaration order.
C22_SwitchDelegatesToCase ==
    /\ lastOp.op \in {"typ_str", "obj_str", "subentries"}
    /\ Kind(Wrapped(lastOp.entry)) = "Switch"
    /\ LiveContext(obj_get(root_obj, path(lastOp.entry))) # NoMeta
    => ReadsAsCase(Wrapped(lastOp.entry),
                   LiveContext(obj_get(root_obj, path(lastOp.entry))))

\* a switch with a default was read while its key had no case
C22_Witness ==
    /\ lastOp.op = "typ_str"
    /\ Kind(Wrapped(lastOp.entry)) = "Switch"
    /\ subentry_default(Wrapped(lastOp.entry)) # NoEntry
    /\ LiveContext(obj_get(root_obj, path(lastOp.entry))) = "Z"
    /\ lastOp.err = ""
    /\ lastOp.str # "Switch"


\* e is a Renamed that directly wraps a Renamed of the same name
WrapsSameName(e) ==
    /\ Kind(e) = "Renamed"
    /\ Kind(subentry(e)) = "Renamed"
    /\ name(subentry(e)) = name(e)

\* e is a branch wrapper of a conditional or a switch
BranchWrapper(e) == Kind(e) = "Renamed" /\ GrammarTree[e[1]].excl

\* the path of the parent of e, empty for a root
PathAbove(e) == IF parent(e) = NoEntry THEN <<>> ELSE path(parent(e))

\* the outermost of the same-named Renamed entries that wrap the Renamed e
RECURSIVE ChainTop(_)
ChainTop(e) ==
    IF parent(e) # NoEntry /\ WrapsSameName(parent(e)) THEN ChainTop(parent(e))
    ELSE e

\* how often the segment nm occurs in the path p
Occurrences(p, nm) == Cardinality({i \in DOMAIN p : p[i] = nm})

\* C23: a Renamed whose name is the name of the Renamed it directly wraps
\* adds no segment to the path, so the path of the entry inside a chain of
\* same-named Renamed entries has that name once, after the path above the
\* chain; a Renamed made with exclude_from_path (a branch wrapper of a
\* conditional or a switch) adds no segment, so the path of a branch entry
\* is the path of its conditional or switch.
C23_RenameChainOneSegment ==
    lastOp.op = "path" =>
        /\ WrapsSameName(lastOp.entry) => lastOp.pth = PathAbove(lastOp.entry)
        /\ (/\ parent(lastOp.entry) # NoEntry
            /\ Kind(lastOp.entry) # "Renamed"
            /\ name(lastOp.entry) = ""
            /\ Kind(parent(lastOp.entry)) = "Renamed"
            /\ ~BranchWrapper(parent(lastOp.entry))
            /\ name(parent(lastOp.entry)) # "")
           => /\ lastOp.pth = Append(PathAbove(ChainTop(parent(lastOp.entry))),
                                     name(parent(lastOp.entry)))
              /\ Occurrences(lastOp.pth, name(parent(lastOp.entry)))
                   = 1 + Occurrences(PathAbove(ChainTop(parent(lastOp.entry))),
                                     name(parent(lastOp.entry)))
        /\ BranchWrapper(lastOp.entry) => lastOp.pth = PathAbove(lastOp.entry)
        /\ (/\ parent(lastOp.entry) # NoEntry
            /\ BranchWrapper(parent(lastOp.entry))
            /\ name(lastOp.entry) = "")
           => lastOp.pth = path(parent(parent(lastOp.entry)))

\* the path of the leaf inside two Renamed entries of the same name was
\* computed and has the name once
C23_Witness ==
    /\ lastOp.op = "path"
    /\ Kind(lastOp.entry) = "Leaf"
    /\ ChainTop(parent(lastOp.entry)) # parent(lastOp.entry)
    /\ lastOp.pth = <<name(parent(lastOp.entry))>>

\* ------------------------------------------------------------------------
\* the list-view item
\* ------------------------------------------------------------------------
NoDuplicates(list) == \A i, j \in 1..Len(list) : list[i] = list[j] => i = j

\* C24: a click on the list-view item of an array adds the array to
\* list_viewed_entries when it is not in it and removes it when it is, and
\* leaves the membership of every other entry as it was; a second click on
\* the same array right after the first restores the contents from before
\* the first; no entry is ever in the list twice
C24_ToggleFlipsOneMembership ==
    /\ NoDuplicates(list_viewed_entries)
    /\ lastOp.op = "clicked" =>
          /\ lastOp.entry \in Range(list_viewed_entries)
                <=> lastOp.entry \notin Range(lastOp.ret)
          /\ \A e \in Entries \ {lastOp.entry} :
                e \in Range(list_viewed_entries) <=> e \in Range(lastOp.ret)
          /\ lastOp.str = lastOp.entry[1] =>
                Range(nodes_of(list_viewed_entries)) = Range(lastOp.pth)

\* the second of two clicks on one array, with another array listed
\* throughout
C24_Witness ==
    /\ lastOp.op = "clicked"
    /\ lastOp.str = lastOp.entry[1]
    /\ lastOp.entry \in Range(list_viewed_entries)
    /\ Len(list_viewed_entries) = 2
    /\ lastOp.pth # <<>>

\* ------------------------------------------------------------------------
\* the frame of an edit
\* ------------------------------------------------------------------------
IsPrefix(a, b) == Len(a) <= Len(b) /\ SubSeq(b, 1, Len(a)) = a

\* the paths of the loaded tree that neither lead to the path p nor pass
\* through it
Elsewhere(p) ==
    {path(x) : x \in Tree(root_entry)} \ {q \in {path(x) : x \in Tree(root_entry)} :
                                            IsPrefix(q, p) \/ IsPrefix(p, q)}

\* C25: a set_value on an entry, and the undo of it, leaves a read of every
\* path that is neither a prefix nor an extension of the entry's path as it
\* was, and leaves hide_protected, integer_format, list_viewed_entries and
\* root_entry unchanged
C25_EditFrame ==
    [][lastOp'.op \in {"set_value", "undo"} =>
          /\ \A q \in Elsewhere(path(lastOp'.entry)) :
                obj_get(root_obj', q) = obj_get(root_obj, q)
          /\ UNCHANGED <<hide_protected, integer_format, list_viewed_entries,
                         root_entry>>]_vars

\* the array was replaced by a list of another length and the edit undone,
\* with the protected entries shown, the hexadecimal format and a list view
C25_Witness ==
    /\ lastOp.op = "undo"
    /\ lastOp.err = ""
    /\ lastOp.entry = <<"arr", -1>>
    /\ lastOp.val # lastOp.old
    /\ obj_get(root_obj, path(lastOp.entry)).val = lastOp.old
    /\ ~hide_protected
    /\ integer_format = IntegerFormat_Hex
    /\ list_viewed_entries # <<>>
    /\ Elsewhere(path(lastOp.entry)) # {}

\* ------------------------------------------------------------------------
\* the order of assignment and notification
\* ------------------------------------------------------------------------
\* the latest call of on_value_changed
LatestCall == changed_log[Len(changed_log)]

\* C26: when on_value_changed(entry) is called from a command's do, a read
\* of the entry's path already returns the new value and, when the two
\* differ, no longer the value from before the set_value; when it is called from undo, the read already
\* returns the restored old value
C26_NotifiedAfterAssignment ==
    /\ (lastOp.op = "set_value" /\ lastOp.err = "")
       => /\ changed_log # <<>>
          /\ LatestCall.phase = "do"
          /\ LatestCall.entry = lastOp.entry
          /\ Plain(LatestCall.seen) = Plain(lastOp.val)
          /\ Plain(lastOp.val) # Plain(lastOp.old) => LatestCall.seen # lastOp.old
    /\ (lastOp.op = "undo" /\ lastOp.err = "")
       => /\ changed_log # <<>>
          /\ LatestCall.phase = "undo"
          /\ LatestCall.entry = lastOp.entry
          /\ LatestCall.seen = lastOp.old

\* ------------------------------------------------------------------------
\* the flat list and the filter of get_children
\* ------------------------------------------------------------------------
\* the subentries of e that get_children would return
ShownKids(e) == children_of(Kids(e), hide_protected)

RECURSIVE ShownUnder(_)
shown_under_each(ks) == UNION {ShownUnder(ks[i]) : i \in DOMAIN ks}

\* the entries reached from e through get_children alone
ShownUnder(e) == {e} \cup shown_under_each(ShownKids(e))

\* the leaves reached from e through get_children alone
ShownLeafSet(e) == {d \in ShownUnder(e) : AbsentChildren(d)}

\* the entries below e that get_children drops, and all below them
Dropped(e) == Under(e) \ ShownUnder(e)

\* C27: create_flat_subentry_list does not apply the filter of
\* get_children: with hide_protected set, the flat list holds every leaf
\* below the entry, those that are unnamed or lie below a protected name
\* included, so it is at least as long as the leaves reached through
\* get_children are many, and longer by the leaves get_children drops
C27_FlatListIsNotFiltered ==
    lastOp.op = "flat" /\ lastOp.err = "" /\ hide_protected =>
        /\ \A d \in LeafSet(lastOp.entry) : d \in Range(lastOp.ret)
        /\ ShownLeafSet(lastOp.entry) \subseteq Range(lastOp.ret)
        /\ Len(lastOp.ret) =
              Cardinality(ShownLeafSet(lastOp.entry))
              + Cardinality(LeafSet(lastOp.entry) \cap Dropped(lastOp.entry))

\* the root was flattened with hide_protected set: the list holds the
\* unnamed leaf and the leaf of the protected struct, and is longer than
\* the leaves reached through get_children are many
C27_Witness ==
    /\ lastOp.op = "flat"
    /\ lastOp.err = ""
    /\ hide_protected
    /\ lastOp.entry = RootEntry
    /\ <<"pad", -1>> \in Range(lastOp.ret)
    /\ <<"c", -1>> \in Range(lastOp.ret)
    /\ name(<<"pad", -1>>) = ""
    /\ startswith_underscore(name(<<"b", -1>>))
    /\ ShownLeafSet(lastOp.entry) # {}
    /\ Len(lastOp.ret) > Cardinality(ShownLeafSet(lastOp.entry))

\* ------------------------------------------------------------------------
\* an edit of an entry without a path
\* ------------------------------------------------------------------------
\* C28: set_value on an entry whose path is empty raises before the command
\* is handed to submit (IndexError from the constructor of Cmd when the
\* column is the value column): root_obj and the history are as they were
\* and on_value_changed is not called
C28_EmptyPathFailsBeforeSubmit ==
    [][lastOp'.op = "set_value" /\ path(lastOp'.entry) = <<>> =>
          /\ lastOp'.err # ""
          /\ lastOp'.col = ValueColumn => lastOp'.err = "IndexError"
          /\ ~lastOp'.flag
          /\ UNCHANGED <<root_obj, history, changed_log>>]_vars

\* set_value failed on the Renamed that wraps a Renamed of its own name
C28_Witness ==
    /\ lastOp.op = "set_value"
    /\ lastOp.entry = <<"n", -1>>
    /\ lastOp.col = ValueColumn
    /\ path(lastOp.entry) = <<>>
    /\ lastOp.err = "IndexError"
    /\ ~lastOp.flag
    /\ changed_log = <<>>

====
